---------------------------- MODULE Spec2Model ----------------------------
(***************************************************************************)
(* A state-machine model of the AIOps real-time monitor:                   *)
(*   - ZScoreDetector      (src/src/anomaly/zscore_detector.py)            *)
(*   - AlertManager        (src/src/alert/alert_manager.py)                *)
(*   - WindowManager       (src/src/processing/window_manager.py)          *)
(*   - the dashboard's stream controls (src/app/web/controls_sidebar.py,   *)
(*     src/app/web/state_manager.py)                                       *)
(* Each component has its own specification (SpecZ, SpecAlert, ...) over   *)
(* the shared variables; a specification leaves the variables of the other *)
(* components at their constructed values.                                 *)
(*                                                                         *)
(* Numbers: the scores handed to the AlertManager are integers in          *)
(* thousandths (700 is 0.7). A score that a detector computes is kept as   *)
(* the double the code computes: the ZScoreDetector's as the thousandth    *)
(* just below or at it, with a flag telling whether it is that thousandth  *)
(* exactly, a rule's of the ComprehensiveAnomalyDetector as the double     *)
(* itself next to the exact value of its expression. Z-Score inputs are    *)
(* integers, and the comparison |z| > threshold is carried out on squares; *)
(* where the two sides are equal as exact numbers it is decided as the     *)
(* code decides it, on the rounded doubles.                                *)
(***************************************************************************)
EXTENDS Integers, Sequences, FiniteSets, TLC

VARIABLES
    \* ZScoreDetector
    window_size,          \* ZScoreDetector.window_size
    history,              \* ZScoreDetector.history
    z_ret,                \* what the last predict call returned
    z_calls,              \* number of predict calls made so far
    \* AlertManager
    max_alerts,           \* AlertManager.max_alerts
    alert_threshold,      \* AlertManager.alert_threshold (thousandths)
    alerts,               \* AlertManager.alerts (deque, oldest first)
    recent_alert_hashes,  \* AlertManager.recent_alert_hashes (deque, oldest first)
    am_call,              \* the last AlertManager call and its arguments
    am_ret,               \* what the last create_alert (NoAlert for None) or
                          \* get_stats returned
    am_list,              \* the list the last get_recent_alerts returned
    am_calls,             \* number of AlertManager calls made so far
    sweep,                \* number of distinct error statuses the sweep has sent
    \* WindowManager
    wm_max_size,          \* WindowManager.max_size
    wm_data_buffer,       \* WindowManager.data_buffer (deque, oldest first)
    wm_call,              \* the last WindowManager call and its arguments
    wm_ret,               \* the list the last query returned
    wm_adds,              \* add_event calls since construction or the last clear
    \* DetectorManager
    training_data,        \* DetectorManager.training_data
    is_fitted,            \* DetectorManager.detectors["isolation_forest"].is_fitted
    dm_method,            \* DetectorManager.method
    cp_enabled,           \* "changepoint" in DetectorManager.detectors
    feature_names,        \* DetectorManager.feature_names
    fit_calls,            \* calls of IsolationForestDetector.fit made so far
    dm_call,              \* the last DetectorManager call and its arguments
    dm_ret,               \* what the last DetectorManager.detect returned
    \* dashboard session state
    is_running,           \* st.session_state.is_running
    ss_data_buffer,       \* st.session_state.data_buffer (deque, maxlen 1000)
    anomaly_buffer,       \* st.session_state.anomaly_buffer (deque, maxlen 500)
    poll_counter,         \* st.session_state.poll_counter
    last_poll_time,       \* st.session_state.last_poll_time
    app_action,           \* the last dashboard action taken
    \* ChangePointDetector
    cp_window_size,       \* ChangePointDetector.window_size
    cp_values,            \* the array the detector is called on
    cp_call,              \* the last ChangePointDetector call and its arguments
    cp_ret,               \* what that call returned
    \* ComprehensiveAnomalyDetector
    response_time_history, \* ComprehensiveAnomalyDetector.response_time_history
    rps_history,          \* ComprehensiveAnomalyDetector.rps_history
    error_rate_history,   \* ComprehensiveAnomalyDetector.error_rate_history
    cpu_history,          \* ComprehensiveAnomalyDetector.cpu_history
    memory_history,       \* ComprehensiveAnomalyDetector.memory_history
    ip_requests,          \* ComprehensiveAnomalyDetector.ip_requests
    cd_calls,             \* number of detect calls made so far
    cd_call,              \* the last ComprehensiveAnomalyDetector call
    cd_ret,               \* what that call returned, or the error it raised
    \* a second ZScoreDetector, fed the values of one feature alone
    solo_history,         \* its history
    solo_ret,             \* what its last predict call returned
    zd_call,              \* the last ZScoreDetector.detect call and its arguments
    zd_ret,               \* what that call returned (details in feature order)
    \* the ingest layer: IngestManager and its one active collector
    mode,                 \* IngestManager.mode
    connected,            \* collector.connected (socket and WebSocket)
    recv_buffer,          \* the local buffer of SocketStreamCollector.collect
    event_queue,          \* WebSocketStreamCollector.event_queue
    queue_lock,           \* the thread that holds queue_lock, or "free"
    should_reconnect,     \* WebSocketStreamCollector.should_reconnect
    duration,             \* MockStreamGenerator.duration, in event intervals
    elapsed,              \* event intervals gone by since generate() started
    event_count,          \* MockStreamGenerator.event_count
    collect_pc,           \* where the event iterator (collect, generate) stands
    worker,               \* the WebSocketApp threads: the position and the
                          \* message of each
    wire,                 \* bytes (socket) or frames (WebSocket) still to arrive
    sent,                 \* everything the peer sends, in order
    yielded,              \* the events the iterator has yielded so far
    fault,                \* the last transport outcome the collector met
    stopped,              \* IngestManager.stop() has been called
    starts,               \* IngestManager.start() calls made so far
    after_stop,           \* events the iterator yielded after that call
    ws_threads,           \* number of WebSocketApp threads connect() has started
    polls,                \* time.sleep(1) calls of the running connect()
    \* the wall clock the AlertManager reads
    clock,                \* what datetime.now() returns, in whole seconds
    emitted_at,           \* Alert.timestamp of the newest stored alert
    \* the named windows of the WindowManager
    wm_window_size,       \* WindowManager.window_size
    nw_updates,           \* update_window calls made so far
    windows,              \* WindowManager.windows: name -> deque, or NoWindow
    nw_call,              \* the last named-window call and its arguments
    nw_ret                \* the list that call returned (get_window)

zvars == <<window_size, history, z_ret, z_calls>>
amvars == <<max_alerts, alert_threshold, alerts, recent_alert_hashes,
            am_call, am_ret, am_list, am_calls, sweep>>

wmvars == <<wm_max_size, wm_data_buffer, wm_call, wm_ret, wm_adds>>

dmvars == <<training_data, is_fitted, dm_method, cp_enabled, feature_names,
            fit_calls, dm_call, dm_ret>>
ssvars == <<is_running, ss_data_buffer, anomaly_buffer, poll_counter,
            last_poll_time, app_action>>

cpvars == <<cp_window_size, cp_values, cp_call, cp_ret>>

cdvars == <<response_time_history, rps_history, error_rate_history,
            cpu_history, memory_history, ip_requests, cd_calls, cd_call, cd_ret>>

zdvars == <<solo_history, solo_ret, zd_call, zd_ret>>

ingvars == <<mode, connected, recv_buffer, event_queue, queue_lock,
             should_reconnect, duration, elapsed, event_count, collect_pc,
             worker, wire, sent, yielded, fault, stopped, starts,
             after_stop, ws_threads, polls>>

wsvars == <<ws_threads, polls>>

clkvars == <<clock, emitted_at>>

nwvars == <<wm_window_size, nw_updates, windows, nw_call, nw_ret>>

vars == <<zvars, amvars, wmvars, dmvars, ssvars, cpvars, cdvars,
    zdvars, ingvars, clkvars, nwvars>>

\* what a call on one component leaves alone
notz == <<amvars, wmvars, dmvars, ssvars, cpvars, cdvars, zdvars, ingvars,
    clkvars, nwvars>>
notam == <<zvars, wmvars, dmvars, ssvars, cpvars, cdvars, zdvars, ingvars,
    clkvars, nwvars>>
notwm == <<zvars, amvars, dmvars, ssvars, cpvars, cdvars, zdvars, ingvars,
    clkvars>>
notcp == <<zvars, amvars, wmvars, dmvars, ssvars, cdvars, zdvars, ingvars,
    clkvars, nwvars>>
notcd == <<zvars, amvars, wmvars, dmvars, ssvars, cpvars, zdvars, ingvars,
    clkvars, nwvars>>
\* what a DetectorManager call leaves alone besides the detectors it owns
notdm == <<amvars, wmvars, ssvars, cdvars, zdvars, ingvars,
    clkvars, nwvars>>
noting == <<zvars, amvars, wmvars, dmvars, ssvars, cpvars, cdvars, zdvars,
    clkvars, nwvars>>

-----------------------------------------------------------------------------
(* Generic helpers *)

\* the sum of v^power over the entries v of s, each distinct value counted
\* as often as it occurs
RECURSIVE SumOver(_, _, _)
SumOver(values, s, power) ==
    IF values = {} THEN 0
    ELSE LET v == CHOOSE x \in values : TRUE
         IN  v ^ power * Cardinality({i \in DOMAIN s : s[i] = v})
             + SumOver(values \ {v}, s, power)

SumSeq(s) == SumOver({s[i] : i \in DOMAIN s}, s, 1)

SumSq(s) == SumOver({s[i] : i \in DOMAIN s}, s, 2)

\* mutant: a plain list in place of the deque, nothing is ever dropped
DequeAppend_Unbounded(q, x, cap) == Append(q, x)

\* collections.deque(maxlen=cap).append(x): the oldest is dropped when full
DequeAppend(q, x, cap) ==
    IF cap = 0 THEN <<>>
    ELSE IF Len(q) >= cap THEN Append(Tail(q), x)
    ELSE Append(q, x)

Abs(x) == IF x < 0 THEN -x ELSE x

\* Exact fractions [num, den] in lowest terms with a positive denominator
RECURSIVE Gcd(_, _)
Gcd(a, b) == IF b = 0 THEN a ELSE Gcd(b, a % b)

Frac(n, d) ==
    LET g == Gcd(Abs(n), d) IN [num |-> n \div g, den |-> d \div g]

FracLess(a, b) == a.num * b.den < b.num * a.den
FracAdd(a, b) == Frac(a.num * b.den + b.num * a.den, a.den * b.den)
FracMul(a, b) == Frac(a.num * b.num, a.den * b.den)
\* a / b for positive b
FracDiv(a, b) == Frac(a.num * b.den, a.den * b.num)
One == Frac(1, 1)
Zero == Frac(0, 1)
\* min(1.0, x)
Min1(x) == IF FracLess(One, x) THEN One ELSE x

\* np.mean of a non-empty list of integers
Mean(s) == Frac(SumSeq(s), Len(s))

\* the sum of a list of fractions
RECURSIVE FracSum(_)
FracSum(s) == IF s = <<>> THEN Zero ELSE FracAdd(Head(s), FracSum(Tail(s)))

\* np.mean of a non-empty list of fractions
FracMean(s) == FracMul(FracSum(s), Frac(1, Len(s)))

\* IEEE-754 binary64 arithmetic on non-negative values, used where the two
\* sides of a comparison are equal as exact numbers and the order the code
\* sees is that of the rounded results. A natural number of any size is the
\* sequence of its digits in base Limb, lowest first, without leading
\* zeros; a double is m * 2^e with a 53-bit m, or DoubleZero.
\* Where a result is used several times it is bound by a set of one
\* element, which is evaluated once.
Limb == 8192
LimbBits == 13
MantissaBits == 53

RECURSIVE BigOfInt(_)
BigOfInt(n) == IF n = 0 THEN <<>> ELSE <<n % Limb>> \o BigOfInt(n \div Limb)

\* a without its leading zeros
BigTrim(a) ==
    CHOOSE trimmed \in
        {SubSeq(x, 1, CHOOSE n \in 0..Len(x) :
                          /\ n = 0 \/ x[n] # 0
                          /\ \A j \in (n + 1)..Len(x) : x[j] = 0) :
            x \in {a}} : TRUE

LimbAt(a, i) == IF i <= Len(a) THEN a[i] ELSE 0

RECURSIVE BigAddFrom(_, _, _, _)
BigAddFrom(a, b, i, carry) ==
    IF i > Len(a) /\ i > Len(b) THEN BigOfInt(carry)
    ELSE CHOOSE digits \in
             {<<t % Limb>> \o BigAddFrom(a, b, i + 1, t \div Limb) :
                 t \in {LimbAt(a, i) + LimbAt(b, i) + carry}} : TRUE

BigAdd(a, b) ==
    CHOOSE sum \in {BigAddFrom(x, y, 1, 0) : x \in {a}, y \in {b}} : TRUE

\* a - b for a >= b
RECURSIVE BigSubFrom(_, _, _, _)
BigSubFrom(a, b, i, borrow) ==
    IF i > Len(a) THEN <<>>
    ELSE CHOOSE digits \in
             {<<(t + Limb) % Limb>>
              \o BigSubFrom(a, b, i + 1, IF t < 0 THEN 1 ELSE 0) :
                 t \in {a[i] - LimbAt(b, i) - borrow}} : TRUE

BigSub(a, b) ==
    CHOOSE difference \in
        {BigTrim(BigSubFrom(x, y, 1, 0)) : x \in {a}, y \in {b}} : TRUE

RECURSIVE BigLessFrom(_, _, _)
BigLessFrom(a, b, i) ==
    IF i = 0 THEN FALSE
    ELSE IF a[i] # b[i] THEN a[i] < b[i]
    ELSE BigLessFrom(a, b, i - 1)

BigLess(a, b) ==
    \E x \in {a}, y \in {b} :
        IF Len(x) # Len(y) THEN Len(x) < Len(y) ELSE BigLessFrom(x, y, Len(x))

\* a * k for 0 <= k <= Limb
RECURSIVE BigMulSmallFrom(_, _, _, _)
BigMulSmallFrom(a, k, i, carry) ==
    IF i > Len(a) THEN BigOfInt(carry)
    ELSE CHOOSE digits \in
             {<<t % Limb>> \o BigMulSmallFrom(a, k, i + 1, t \div Limb) :
                 t \in {a[i] * k + carry}} : TRUE

BigMulSmall(a, k) ==
    CHOOSE product \in
        {BigTrim(BigMulSmallFrom(x, n, 1, 0)) : x \in {a}, n \in {k}} : TRUE

\* (a[i] + a[i + 1] * Limb + ...) * b
RECURSIVE BigMulFrom(_, _, _)
BigMulFrom(a, b, i) ==
    IF i > Len(a) THEN <<>>
    ELSE BigAdd(BigMulSmall(b, a[i]),
                BigTrim(<<0>> \o BigMulFrom(a, b, i + 1)))

BigMul(a, b) ==
    CHOOSE product \in
        {IF x = <<>> \/ y = <<>> THEN <<>> ELSE BigMulFrom(x, y, 1) :
            x \in {a}, y \in {b}} : TRUE

\* a * 2^n
BigShl(a, n) ==
    CHOOSE shifted \in
        {IF x = <<>> THEN x
         ELSE [i \in 1..(k \div LimbBits) |-> 0]
              \o (IF k % LimbBits = 0 THEN x
                  ELSE BigMulSmall(x, 2 ^ (k % LimbBits))) :
            x \in {a}, k \in {n}} : TRUE

\* a div 2^n
BigShr(a, n) ==
    CHOOSE shifted \in
        {IF k % LimbBits = 0 THEN x
         ELSE BigTrim([i \in 1..Len(x) |->
                          (x[i] \div (2 ^ (k % LimbBits)))
                          + (LimbAt(x, i + 1) % (2 ^ (k % LimbBits)))
                            * (2 ^ (LimbBits - (k % LimbBits)))]) :
            x \in {IF n \div LimbBits >= Len(a) THEN <<>>
                   ELSE SubSeq(a, n \div LimbBits + 1, Len(a))},
            k \in {n}} : TRUE

RECURSIVE IntBits(_)
IntBits(n) == IF n = 0 THEN 0 ELSE 1 + IntBits(n \div 2)

\* the number of binary digits of a
BigBits(a) ==
    CHOOSE bits \in
        {IF x = <<>> THEN 0 ELSE LimbBits * (Len(x) - 1) + IntBits(x[Len(x)]) :
            x \in {a}} : TRUE

DoubleZero == [m |-> <<>>, e |-> 0]

\* n with its last k binary digits rounded away, a tie going to the even
\* result
BigRoundOff(n, k) ==
    CHOOSE rounded \in
        {IF \/ BigLess(BigShl(<<1>>, k - 1), BigSub(n, BigShl(q, k)))
            \/ /\ BigSub(n, BigShl(q, k)) = BigShl(<<1>>, k - 1)
               /\ q[1] % 2 = 1
         THEN BigAdd(q, <<1>>) ELSE q : q \in {BigShr(n, k)}} : TRUE

\* the double nearest to the natural number n times 2^e
DoubleRoundBig(n, e) ==
    IF n = <<>> THEN DoubleZero
    ELSE IF BigBits(n) <= MantissaBits
    THEN [m |-> BigShl(n, MantissaBits - BigBits(n)),
          e |-> e - (MantissaBits - BigBits(n))]
    ELSE CHOOSE double \in
             {IF BigBits(rounded) > MantissaBits
              THEN [m |-> BigShr(rounded, 1),
                    e |-> e + BigBits(n) - MantissaBits + 1]
              ELSE [m |-> rounded, e |-> e + BigBits(n) - MantissaBits] :
                  rounded \in {BigRoundOff(n, BigBits(n) - MantissaBits)}} : TRUE

DoubleRound(n, e) ==
    CHOOSE double \in {DoubleRoundBig(value, e) : value \in {n}} : TRUE

DoubleOfInt(n) == DoubleRound(BigOfInt(n), 0)

\* a + b
DoubleAdd(a, b) ==
    CHOOSE sum \in
        {IF x.m = <<>> THEN y
         ELSE IF y.m = <<>> THEN x
         ELSE LET low == IF x.e < y.e THEN x.e ELSE y.e
              IN  DoubleRound(BigAdd(BigShl(x.m, x.e - low),
                                     BigShl(y.m, y.e - low)), low) :
             x \in {a}, y \in {b}} : TRUE

\* a - b for a >= b
DoubleSub(a, b) ==
    CHOOSE difference \in
        {IF y.m = <<>> THEN x
         ELSE LET low == IF x.e < y.e THEN x.e ELSE y.e
              IN  DoubleRound(BigSub(BigShl(x.m, x.e - low),
                                     BigShl(y.m, y.e - low)), low) :
             x \in {a}, y \in {b}} : TRUE

RECURSIVE IntOfBig(_)
IntOfBig(a) == IF a = <<>> THEN 0 ELSE Head(a) + Limb * IntOfBig(Tail(a))

\* floor(a) for a double below 2^31
DoubleFloor(a) ==
    IF a.m = <<>> THEN 0
    ELSE IF a.e >= 0 THEN IntOfBig(BigShl(a.m, a.e))
    ELSE IntOfBig(BigShr(a.m, -a.e))

\* a * b
DoubleMul(a, b) ==
    CHOOSE product \in
        {IF x.m = <<>> \/ y.m = <<>> THEN DoubleZero
         ELSE DoubleRound(BigMul(x.m, y.m), x.e + y.e) :
             x \in {a}, y \in {b}} : TRUE

\* steps further binary digits of the quotient q of a division by d whose
\* remainder so far is rem
RECURSIVE LongDivide(_, _, _, _)
LongDivide(q, rem, d, steps) ==
    IF steps = 0 THEN [q |-> q, rem |-> rem]
    ELSE IF steps = 1
    THEN CHOOSE next \in
             {IF BigLess(twice, d)
              THEN [q |-> BigMulSmall(q, 2), rem |-> twice]
              ELSE [q |-> BigAdd(BigMulSmall(q, 2), <<1>>),
                    rem |-> BigSub(twice, d)] :
                 twice \in {BigMulSmall(rem, 2)}} : TRUE
    \* the first half of the digits, then the others
    ELSE CHOOSE parts \in
             {LongDivide(first.q, first.rem, d, steps - steps \div 2) :
                 first \in {LongDivide(q, rem, d, steps \div 2)}} : TRUE

\* a / b for b > 0: the quotient of the mantissas to 55 binary places, a
\* last digit telling whether anything is left, rounded
DoubleDiv(a, b) ==
    CHOOSE quotient \in
        {IF x.m = <<>> THEN DoubleZero
         ELSE CHOOSE double \in
                  {DoubleRound(BigAdd(BigMulSmall(parts.q, 2),
                                      IF parts.rem = <<>> THEN <<>> ELSE <<1>>),
                               x.e - y.e - (MantissaBits + 3)) :
                      parts \in {IF BigLess(x.m, y.m)
                                 THEN LongDivide(<<>>, x.m, y.m,
                                                 MantissaBits + 2)
                                 ELSE LongDivide(<<1>>, BigSub(x.m, y.m), y.m,
                                                 MantissaBits + 2)}} : TRUE :
             x \in {a}, y \in {b}} : TRUE

\* float(p) / float(q), and the double a literal p/q of the source denotes
DoubleRatio(p, q) == DoubleDiv(DoubleOfInt(p), DoubleOfInt(q))

\* a < b
DoubleLess(a, b) ==
    \E x \in {a}, y \in {b} :
        IF y.m = <<>> THEN FALSE
        ELSE IF x.m = <<>> THEN TRUE
        ELSE IF x.e # y.e THEN x.e < y.e
        ELSE BigLess(x.m, y.m)

\* res += a[i] for i, i + step, ... up to last
RECURSIVE DoubleSumFrom(_, _, _, _, _)
DoubleSumFrom(res, a, i, step, last) ==
    IF i > last THEN res
    ELSE CHOOSE total \in {DoubleSumFrom(sum, a, i + step, step, last) :
                               sum \in {DoubleAdd(res, a[i])}} : TRUE

\* numpy's pairwise summation of the n doubles a[first], a[first + 1], ...:
\* in order for fewer than 8; up to 128 of them, 8 running sums over the
\* whole blocks of 8, combined in pairs, then the rest in order; more than
\* 128, the sum of the first half (its length cut down to a multiple of 8)
\* plus the sum of the others
RECURSIVE PairwiseSum(_, _, _)
PairwiseSum(a, first, n) ==
    IF n < 8 THEN DoubleSumFrom(DoubleZero, a, first, 1, first + n - 1)
    ELSE IF n <= 128
    THEN CHOOSE total \in
             {DoubleSumFrom(
                  DoubleAdd(DoubleAdd(DoubleAdd(r[1], r[2]),
                                      DoubleAdd(r[3], r[4])),
                            DoubleAdd(DoubleAdd(r[5], r[6]),
                                      DoubleAdd(r[7], r[8]))),
                  a, first + n - (n % 8), 1, first + n - 1) :
                 r \in {[j \in 1..8 |->
                            DoubleSumFrom(a[first + j - 1], a, first + j + 7, 8,
                                          first + n - (n % 8) - 1)]}} : TRUE
    ELSE CHOOSE total \in
             {DoubleAdd(PairwiseSum(a, first, half),
                        PairwiseSum(a, first + half, n - half)) :
                 half \in {n \div 2 - ((n \div 2) % 8)}} : TRUE

pairwise_sum(a) ==
    CHOOSE total \in {PairwiseSum(list, 1, Len(list)) : list \in {a}} : TRUE

\* np.mean of a non-empty list of doubles
DoubleMean(a) == DoubleDiv(pairwise_sum(a), DoubleOfInt(Len(a)))

\* digits 2^high down to 2^low of the largest r with r * r <= n, s.root
\* being the higher digits and s.rem what they leave of n: the digit 2^k
\* is set when (root + 2^k)^2 = root^2 + root * 2^(k + 1) + 2^(2k) fits
RECURSIVE BigSqrtDigits(_, _, _)
BigSqrtDigits(s, high, low) ==
    IF high = low
    THEN CHOOSE next \in
             {IF BigLess(st.rem, square) THEN st
              ELSE [root |-> BigAdd(st.root, BigShl(<<1>>, high)),
                    rem |-> BigSub(st.rem, square)] :
                 st \in {s},
                 square \in {BigAdd(BigShl(s.root, high + 1),
                                    BigShl(<<1>>, 2 * high))}} : TRUE
    \* the upper half of the digits, then the lower
    ELSE CHOOSE r \in
             {BigSqrtDigits(upper, (high + low) \div 2, low) :
                 upper \in {BigSqrtDigits(s, high,
                                          (high + low) \div 2 + 1)}} : TRUE

\* digits 2^bit and below of the largest r with r * r <= n, the higher
\* digits being those of root
BigSqrtFrom(n, root, bit) ==
    IF bit < 0 THEN root
    ELSE BigSqrtDigits([root |-> root, rem |-> BigSub(n, BigMul(root, root))],
                       bit, 0).root

\* sqrt(a): the root of the mantissa, moved up to an even exponent, to 56
\* binary digits, a last digit telling whether anything is left, rounded
DoubleSqrt(a) ==
    CHOOSE root \in
        {IF x.m = <<>> THEN DoubleZero
         ELSE CHOOSE double \in
                  {DoubleRound(BigAdd(BigMulSmall(r, 2),
                                      IF BigMul(r, r) = BigShl(x.m, k)
                                      THEN <<>> ELSE <<1>>),
                               (x.e - k) \div 2 - 1) :
                      r \in {BigSqrtFrom(BigShl(x.m, k), <<>>,
                                         MantissaBits + 2)}} : TRUE :
             x \in {a}, k \in {MantissaBits + 5 + (a.e % 2)}} : TRUE

\* abs(a - b)
DoubleDistance(a, b) ==
    IF DoubleLess(a, b) THEN DoubleSub(b, a) ELSE DoubleSub(a, b)

\* abs(v - mean) for an integer v and a mean of magnitude mean_abs that
\* has the sign of the integer total
AbsDeviation(v, total, mean_abs) ==
    IF v = 0 \/ total = 0 \/ (v > 0) = (total > 0)
    THEN DoubleDistance(DoubleOfInt(Abs(v)), mean_abs)
    ELSE DoubleAdd(DoubleOfInt(Abs(v)), mean_abs)

\* abs(np.mean(h)) for a non-empty list of integers
AbsMean(h) == DoubleRatio(Abs(SumSeq(h)), Len(h))

\* np.std(h) for a non-empty list of integers: the root of the mean of
\* the squared deviations from np.mean(h)
DoubleStd(h) ==
    CHOOSE std \in
        {DoubleSqrt(DoubleDiv(
             pairwise_sum([i \in DOMAIN h |->
                              CHOOSE square \in
                                  {DoubleMul(d, d) :
                                      d \in {AbsDeviation(h[i], SumSeq(h),
                                                          mean)}} : TRUE]),
             DoubleOfInt(Len(h)))) : mean \in {AbsMean(h)}} : TRUE

\* np.std(a) for a non-empty list of doubles a
StdOfDoubles(a) ==
    CHOOSE std \in
        {DoubleSqrt(DoubleDiv(
             pairwise_sum([i \in DOMAIN a |->
                              CHOOSE square \in
                                  {DoubleMul(d, d) :
                                      d \in {DoubleDistance(a[i], mean)}} : TRUE]),
             DoubleOfInt(Len(a)))) : mean \in {DoubleMean(a)}} : TRUE

\* a double of either sign: its magnitude and whether it is negative
SignedOfInt(v) == [neg |-> v < 0, abs |-> DoubleOfInt(Abs(v))]

\* x + y
SignedAdd(x, y) ==
    IF x.neg = y.neg THEN [neg |-> x.neg, abs |-> DoubleAdd(x.abs, y.abs)]
    ELSE IF DoubleLess(x.abs, y.abs)
    THEN [neg |-> y.neg, abs |-> DoubleSub(y.abs, x.abs)]
    ELSE [neg |-> x.neg, abs |-> DoubleSub(x.abs, y.abs)]

\* abs(y - x)
SignedDistance(x, y) ==
    IF x.neg = y.neg THEN DoubleDistance(x.abs, y.abs)
    ELSE DoubleAdd(x.abs, y.abs)

\* the double nearest to a fraction: float(num) / float(den), which is what
\* np.mean gives for a list of integers
DoubleOf(f) == DoubleRatio(f.num, f.den)

\* x < y as the code's doubles dx and dy order them. Exact values that
\* differ are far enough apart for the rounded ones to keep their order;
\* equal ones leave the order to the rounding.
FloatLess(x, y, dx, dy) ==
    IF x.num * y.den = y.num * x.den THEN DoubleLess(dx, dy) ELSE FracLess(x, y)

-----------------------------------------------------------------------------
(* ZScoreDetector *)

\* threshold and window_size defaults of ZScoreDetector.__init__
ZThreshold == 3
DefaultWindowSize == 100

\* bounds of the Z-Score specification
MaxWindowSize == 3
MaxPredicts == 6
ZValues == {0, 1, 10}

\* n^2 * variance of the history (np.std(history)^2 * n^2), exact on integers
VarN(h) == LET sum == SumSeq(h) IN Len(h) * SumSq(h) - sum * sum

\* |(value - mean) / std| squared, as the fraction num / den
ZSquared(h, value) ==
    LET distance == Len(h) * value - SumSeq(h)
    IN  [num |-> distance * distance, den |-> VarN(h)]

ZeroScore == [num |-> 0, den |-> 1]

\* z_score = abs((value - mean) / std) as the double the code computes
z_score(h, value) ==
    DoubleDiv(AbsDeviation(value, SumSeq(h), AbsMean(h)), DoubleStd(h))

\* ZScoreDetector.predict: the pair (new history, returned (is_anomaly,
\* z_score)). z_score is reported as its exact square; is_anomaly is the
\* code's z_score > self.threshold, which at exactly threshold deviations
\* is decided by the rounding of mean, std and the quotient
predict(h, value, wsize) ==
    IF Len(h) < 2
    THEN [history |-> Append(h, value), is_anomaly |-> FALSE, z |-> ZeroScore]
    ELSE IF VarN(h) = 0
    THEN [history |-> Append(h, value), is_anomaly |-> FALSE, z |-> ZeroScore]
    ELSE LET zz == ZSquared(h, value)
             appended == Append(h, value)
         IN  [history |-> IF Len(appended) > wsize THEN Tail(appended) ELSE appended,
              is_anomaly |-> FloatLess([num |-> ZThreshold * ZThreshold,
                                        den |-> 1], zz,
                                       DoubleOfInt(ZThreshold),
                                       z_score(h, value)),
              z |-> zz]

-----------------------------------------------------------------------------
(* AlertManager *)

\* defaults of AlertManager.__init__
DefaultMaxAlerts == 1000
DefaultAlertThreshold == 700
\* maxlen of AlertManager.recent_alert_hashes
HashRingSize == 100

NoEvent == [present |-> FALSE]
\* a detector's result that is absent (None, or no entry in details)
NoResult == [present |-> FALSE]

\* what a method that raised leaves in place of a result
Raised(error) == [raised |-> TRUE, error |-> error]

\* a feature value that is not an int or a float: a string
NonNumeric == -999999
NoAlert == [present |-> FALSE]

\* a status_code value: an integer, a non-numeric value (a string), or no key
IntStatus(c) == [kind |-> "int", val |-> c]
StrStatus == [kind |-> "str", val |-> 0]
AbsentStatus == [kind |-> "absent", val |-> 0]

Event(endpoint, status) ==
    [present |-> TRUE, endpoint |-> endpoint, status_code |-> status]

\* event.get("status_code", 200)
StatusOrDefault(event) ==
    IF event.status_code.kind = "absent" THEN IntStatus(200) ELSE event.status_code

\* mutant: the comparison written > 400
IsHttpError_Strict(event) ==
    /\ event.present
    /\ StatusOrDefault(event).kind = "int"
    /\ StatusOrDefault(event).val > 400

\* isinstance(status_code, (int, float)) and status_code >= 400
IsHttpError(event) ==
    /\ event.present
    /\ StatusOrDefault(event).kind = "int"
    /\ StatusOrDefault(event).val >= 400

\* 2^n modulo m
RECURSIVE Pow2Mod(_, _)
Pow2Mod(n, m) == IF n = 0 THEN 1 % m ELSE (2 * Pow2Mod(n - 1, m)) % m

\* the j >= 0 with 2^j <= score/1000 < 2^(j+1), for score >= 1000
RECURSIVE BinaryExponentUp(_, _)
BinaryExponentUp(score, j) ==
    IF score \div (2 * (2 ^ j)) < 1000 THEN j
    ELSE BinaryExponentUp(score, j + 1)

\* the j >= 1 with 2^(-j) <= score/1000 < 2^(1-j), for 1 <= score < 1000
RECURSIVE BinaryExponentDown(_, _)
BinaryExponentDown(score, j) ==
    IF score * (2 ^ j) >= 1000 THEN j ELSE BinaryExponentDown(score, j + 1)

\* how the binary double nearest to score/1000 lies to score/1000, for
\* score >= 1: with 53 bits the double is round(score * 2^t / 1000) / 2^t
\* for t = 52 - floor(log2(score/1000)), and score * 2^t / 1000 =
\* score * 2^(t-3) / 125, so the remainder modulo 125 decides
DoubleError(score) ==
    LET t == IF score >= 1000 THEN 52 - BinaryExponentUp(score, 0)
             ELSE 52 + BinaryExponentDown(score, 1)
        r == ((score % 125) * Pow2Mod(t - 3, 125)) % 125
    IN  IF r = 0 THEN "exact" ELSE IF r <= 62 THEN "below" ELSE "above"

\* f"{x:.2f}" for the double x nearest to score/1000, in hundredths: the
\* decimal expansion of the double is rounded to nearest, so a score
\* ending in 5 thousandths goes the way its double lies, and to the even
\* neighbour when the double is exact
Fmt2(score) ==
    IF score % 10 # 5 THEN (score + 5) \div 10
    ELSE IF DoubleError(score) = "below" THEN score \div 10
    ELSE IF DoubleError(score) = "above" THEN score \div 10 + 1
    ELSE IF (score \div 10) % 2 = 0 THEN score \div 10
    ELSE score \div 10 + 1

\* the status_messages table of _generate_message; a code outside the table
\* gives f"HTTP {status_code}", written "HTTP" here (the code is in the
\* message beside it)
StatusMessage(code) ==
    CASE code = 400 -> "Bad Request"
      [] code = 401 -> "Unauthorized"
      [] code = 403 -> "Forbidden"
      [] code = 404 -> "Not Found"
      [] code = 408 -> "Request Timeout"
      [] code = 418 -> "I'm a teapot"
      [] code = 500 -> "Internal Server Error"
      [] code = 502 -> "Bad Gateway"
      [] code = 503 -> "Service Unavailable"
      [] code = 504 -> "Gateway Timeout"
      [] OTHER -> "HTTP"

NoStatus == [kind |-> "none", val |-> 0]

\* AlertManager._generate_message: the message as the record of the parts
\* that are formatted into the string
_generate_message(detection_result, event) ==
    IF IsHttpError(event)
    THEN [kind |-> "http_error",
          has_event |-> TRUE,
          endpoint |-> event.endpoint,
          score |-> 0,
          method |-> "",
          status_code |-> event.status_code,
          status_msg |-> StatusMessage(event.status_code.val),
          changepoint |-> ""]
    ELSE [kind |-> "anomaly",
          has_event |-> event.present,
          endpoint |-> IF event.present THEN event.endpoint ELSE "",
          score |-> Fmt2(detection_result.anomaly_score),
          method |-> detection_result.method,
          status_code |-> IF event.present THEN event.status_code ELSE NoStatus,
          status_msg |-> "",
          changepoint |-> detection_result.changepoint]

\* AlertManager._generate_alert_hash: message | is_anomaly | score to 2 decimals
_generate_alert_hash(message, details) ==
    <<message, details.is_anomaly, Fmt2(details.anomaly_score)>>

\* mutant: only the most recent fingerprint is compared
_is_duplicate_LastOnly(alert_hash, hashes) ==
    Len(hashes) > 0 /\ hashes[Len(hashes)] = alert_hash

\* AlertManager._is_duplicate
_is_duplicate(alert_hash, hashes) ==
    \E i \in 1..Len(hashes) : hashes[i] = alert_hash

\* mutant: the critical bound written > 0.9
_determine_level_Strict(anomaly_score, is_anomaly) ==
    IF ~is_anomaly THEN "info"
    ELSE IF anomaly_score > 900 THEN "critical"
    ELSE IF anomaly_score >= 700 THEN "warning"
    ELSE "info"

\* mutant: a score of exactly 0.7 is not yet a warning
_determine_level_WarningAbove(anomaly_score, is_anomaly) ==
    IF ~is_anomaly THEN "info"
    ELSE IF anomaly_score >= 900 THEN "critical"
    ELSE IF anomaly_score > 700 THEN "warning"
    ELSE "info"

\* AlertManager._determine_level
_determine_level(anomaly_score, is_anomaly) ==
    IF ~is_anomaly THEN "info"
    ELSE IF anomaly_score >= 900 THEN "critical"
    ELSE IF anomaly_score >= 700 THEN "warning"
    ELSE "info"

\* is_anomaly and anomaly_score after the HTTP error override (lines 142-153)
EffectiveIsAnomaly(detection_result, event) ==
    IF IsHttpError(event) THEN TRUE ELSE detection_result.is_anomaly

EffectiveScore(detection_result, event) ==
    IF IsHttpError(event)
    THEN (IF event.status_code.val >= 500 THEN 1000 ELSE 800)
    ELSE detection_result.anomaly_score

\* mutant: the threshold check without the is_anomaly test
BelowThreshold_ScoreOnly(detection_result, event, threshold) ==
    /\ ~IsHttpError(event)
    /\ detection_result.anomaly_score < threshold

\* the threshold check of create_alert (line 156): TRUE when the call returns None
BelowThreshold(detection_result, event, threshold) ==
    /\ ~IsHttpError(event)
    /\ \/ ~detection_result.is_anomaly
       \/ detection_result.anomaly_score < threshold

\* the details dictionary built by create_alert (lines 166-178)
AlertDetails(detection_result, event) ==
    [anomaly_score |-> EffectiveScore(detection_result, event),
     is_anomaly |-> EffectiveIsAnomaly(detection_result, event),
     method |-> detection_result.method]

\* the fingerprint create_alert computes for its arguments (line 181)
HashOf(detection_result, event) ==
    _generate_alert_hash(_generate_message(detection_result, event),
                         AlertDetails(detection_result, event))

\* the Alert object create_alert builds (line 187)
NewAlert(detection_result, event) ==
    [present |-> TRUE,
     level |-> _determine_level(EffectiveScore(detection_result, event),
                                EffectiveIsAnomaly(detection_result, event)),
     message |-> _generate_message(detection_result, event),
     details |-> AlertDetails(detection_result, event),
     acknowledged |-> FALSE]

\* AlertManager.create_alert: the new alert ring, fingerprint ring and result
create_alert(als, hashes, detection_result, event, threshold, cap) ==
    IF BelowThreshold(detection_result, event, threshold)
    THEN [alerts |-> als, hashes |-> hashes, ret |-> NoAlert]
    ELSE IF _is_duplicate(HashOf(detection_result, event), hashes)
    THEN [alerts |-> als, hashes |-> hashes, ret |-> NoAlert]
    ELSE [alerts |-> DequeAppend(als, NewAlert(detection_result, event), cap),
          hashes |-> DequeAppend(hashes, HashOf(detection_result, event),
                                 HashRingSize),
          ret |-> NewAlert(detection_result, event)]

-----------------------------------------------------------------------------
(* WindowManager *)

\* default of WindowManager.__init__(max_size)
DefaultMaxSize == 10000
\* default of WindowManager.__init__(window_size)
DefaultNamedSize == 100
\* window_size as init_session_state passes it
DashboardWindowSize == 500

\* an event without a "timestamp" key carries NoTimestamp
NoTimestamp == -1

\* WindowManager.add_event: stamp the event when it has no timestamp, append
add_event(buffer, event, now, cap) ==
    DequeAppend(buffer,
                IF event.timestamp = NoTimestamp
                THEN [event EXCEPT !.timestamp = now]
                ELSE event,
                cap)

\* list(buffer)[-count:] as Python slices it: a start of -count for
\* count > 0 (clamped to the list), and -0 = 0, the start of the list
SliceFromMinus(list, count) ==
    IF count > 0
    THEN (IF count >= Len(list) THEN list
          ELSE SubSeq(list, Len(list) - count + 1, Len(list)))
    ELSE SubSeq(list, 1 - count, Len(list))

\* count None is written NoCount
NoCount == -1

\* WindowManager.get_recent_events(count)
get_recent_events(buffer, count) ==
    IF count = NoCount THEN buffer ELSE SliceFromMinus(buffer, count)

\* the loop of get_time_window over reversed(buffer): an event at or after
\* the cutoff goes to the front of result, the first older one ends the scan
RECURSIVE time_window_scan(_, _, _)
time_window_scan(buffer, cutoff_time, result) ==
    IF buffer = <<>> THEN result
    ELSE IF buffer[Len(buffer)].timestamp >= cutoff_time
    THEN time_window_scan(SubSeq(buffer, 1, Len(buffer) - 1), cutoff_time,
                          <<buffer[Len(buffer)]>> \o result)
    ELSE result

\* WindowManager.get_time_window(seconds), timestamps in whole seconds
get_time_window(buffer, seconds) ==
    IF buffer = <<>> THEN <<>>
    ELSE LET latest_time == buffer[Len(buffer)].timestamp
             cutoff_time == latest_time - seconds
         IN  time_window_scan(buffer, cutoff_time, <<>>)

-----------------------------------------------------------------------------
(* ChangePointDetector.  Arrays hold integers; a mean is kept              *)
(* as the sum of its window (both windows have window_size values, so the  *)
(* common divisor cancels in every comparison), a standard deviation as    *)
(* w*sum(x^2) - sum(x)^2, its square scaled by w^2.  The comparisons of    *)
(* detect_spike and detect_drop are exact unless the two sides are equal,  *)
(* and then follow the doubles of the code.  detect_smoothed_delta is      *)
(* computed in the code's double arithmetic throughout.                    *)

\* sensitivity and min_change defaults of ChangePointDetector.__init__, in tenths
Sensitivity10 == 3
MinChange10 == 2
\* window_size as DetectorManager._initialize_detectors passes it
DMChangepointWindow == 50
\* smoothing_window default of detect_smoothed_delta
DefaultSmoothingWindow == 10

\* (False, -1)
NotDetected == [detected |-> FALSE, idx |-> -1]

\* values[:w] and values[-w:] for 1 <= w <= len(values)
PrevWindow(values, w) == SubSeq(values, 1, w)
CurrentWindow(values, w) == SubSeq(values, Len(values) - w + 1, Len(values))

\* abs(np.mean(window)) for a window of w integers whose sum is total
WindowMean(total, w) == DoubleRatio(Abs(total), w)

\* change_ratio > self.min_change for the window sums prev # 0 and cur;
\* change_ratio is (current_mean - prev_mean) / prev_mean, or its absolute
\* value in detect_drop. At exactly min_change the rounded quotient decides
\* (the two means then have the same sign)
ChangeRatioLarge(prev, cur, w, absolute) ==
    FloatLess([num |-> MinChange10, den |-> 10],
              [num |-> IF absolute THEN Abs(cur - prev)
                       ELSE IF prev > 0 THEN cur - prev ELSE prev - cur,
               den |-> Abs(prev)],
              DoubleRatio(MinChange10, 10),
              DoubleDiv(DoubleDistance(WindowMean(cur, w), WindowMean(prev, w)),
                        WindowMean(prev, w)))

\* abs(prev_mean * threshold_multiplier) for the multiplier 1.0 +
\* sensitivity (up) or 1.0 - sensitivity
ScaledMean(prev, w, up) ==
    DoubleMul(WindowMean(prev, w),
              IF up
              THEN DoubleAdd(DoubleOfInt(1), DoubleRatio(Sensitivity10, 10))
              ELSE DoubleSub(DoubleOfInt(1), DoubleRatio(Sensitivity10, 10)))

\* current_mean > prev_mean * threshold_multiplier in detect_spike; at an
\* exact tie the rounded product decides
AboveScaled(prev, cur, w) ==
    FloatLess([num |-> (10 + Sensitivity10) * prev, den |-> 10],
              [num |-> cur, den |-> 1],
              IF prev > 0 THEN ScaledMean(prev, w, TRUE) ELSE WindowMean(cur, w),
              IF prev > 0 THEN WindowMean(cur, w) ELSE ScaledMean(prev, w, TRUE))

\* current_mean < prev_mean * threshold_multiplier in detect_drop
BelowScaled(prev, cur, w) ==
    FloatLess([num |-> cur, den |-> 1],
              [num |-> (10 - Sensitivity10) * prev, den |-> 10],
              IF prev > 0 THEN WindowMean(cur, w) ELSE ScaledMean(prev, w, FALSE),
              IF prev > 0 THEN ScaledMean(prev, w, FALSE) ELSE WindowMean(cur, w))

\* ChangePointDetector.detect_spike(values), threshold_multiplier None (the
\* two tests of line 64 have no effects and are taken in either order)
detect_spike(values, w) ==
    IF Len(values) < w * 2 THEN NotDetected
    ELSE LET prev == SumSeq(PrevWindow(values, w))
             cur == SumSeq(CurrentWindow(values, w))
         IN  IF prev = 0 THEN NotDetected
             ELSE IF /\ AboveScaled(prev, cur, w)
                     /\ ChangeRatioLarge(prev, cur, w, FALSE)
             THEN [detected |-> TRUE, idx |-> Len(values) - w]
             ELSE NotDetected

\* mutant: the length guard admits an array one value short of two windows
detect_drop_ShortGuard(values, w) ==
    IF Len(values) < w * 2 - 1 THEN NotDetected
    ELSE LET prev == SumSeq(PrevWindow(values, w))
             cur == SumSeq(CurrentWindow(values, w))
         IN  IF prev = 0 THEN NotDetected
             ELSE IF /\ BelowScaled(prev, cur, w)
                     /\ ChangeRatioLarge(prev, cur, w, TRUE)
             THEN [detected |-> TRUE, idx |-> Len(values) - w]
             ELSE NotDetected

\* ChangePointDetector.detect_drop(values), threshold_multiplier None
detect_drop(values, w) ==
    IF Len(values) < w * 2 THEN NotDetected
    ELSE LET prev == SumSeq(PrevWindow(values, w))
             cur == SumSeq(CurrentWindow(values, w))
         IN  IF prev = 0 THEN NotDetected
             ELSE IF /\ BelowScaled(prev, cur, w)
                     /\ ChangeRatioLarge(prev, cur, w, TRUE)
             THEN [detected |-> TRUE, idx |-> Len(values) - w]
             ELSE NotDetected

\* total_change > min_change in detect_pattern_shift, for window sums prev,
\* cur and scaled variances vprev, vcur.  With x = |cur - prev| / |prev|
\* and y = |sqrt(vcur) - sqrt(vprev)| / sqrt(vprev), mean_change is x for a
\* positive prev_mean and -x for a negative one (the divisor prev_mean +
\* 1e-10 keeps the sign of prev_mean), std_change is y, and the test is
\* y + x > 2 * min_change or y - x > 2 * min_change; a zero divisor is
\* replaced by 1e-10 in the code, which makes the quotient 0 when the
\* dividend is 0 and huge otherwise.
PatternShifted(prev, cur, vprev, vcur) ==
    LET dm == Abs(cur - prev)
        den == 10 * Abs(prev)
        \* what y has to exceed, as the fraction room / den: 2 * min_change
        \* less mean_change
        room == IF prev > 0 THEN 2 * MinChange10 * prev - 10 * dm
                ELSE 2 * MinChange10 * Abs(prev) + 10 * dm
    IN  IF prev = 0 THEN dm > 0 \/ (vprev = 0 /\ vcur > 0)
                         \/ (vprev > 0 /\ \/ 25 * vcur > 49 * vprev
                                           \/ 25 * vcur < 9 * vprev)
        ELSE IF room < 0 THEN TRUE
        ELSE IF vprev = 0 THEN vcur > 0
        ELSE \/ vcur * den * den > vprev * (den + room) * (den + room)
             \/ /\ den > room
                /\ vcur * den * den < vprev * (den - room) * (den - room)

\* ChangePointDetector.detect_pattern_shift(values)
detect_pattern_shift(values, w) ==
    IF Len(values) < w * 2 THEN NotDetected
    ELSE IF PatternShifted(SumSeq(PrevWindow(values, w)),
                           SumSeq(CurrentWindow(values, w)),
                           VarN(PrevWindow(values, w)),
                           VarN(CurrentWindow(values, w)))
    THEN [detected |-> TRUE, idx |-> Len(values) - w]
    ELSE NotDetected

\* self.sensitivity, the double of the literal 0.3
SensitivityDouble == DoubleRatio(Sensitivity10, 10)

\* acc += values[j] * weight for j = i .. last, each product and each sum
\* rounded to a double
RECURSIVE DotFrom(_, _, _, _, _)
DotFrom(acc, values, weight, i, last) ==
    IF i > last THEN acc
    ELSE CHOOSE total \in
             {DotFrom(sum, values, weight, i + 1, last) :
                 sum \in {SignedAdd(acc, [neg |-> values[i] < 0,
                                          abs |-> DoubleMul(DoubleOfInt(Abs(values[i])),
                                                            weight)])}} : TRUE

\* np.convolve(values, np.ones(m) / m, mode='same') for len(values) >= m:
\* entry i (from 1) is the dot product of values[i - m + 1 + (m-1)//2 ..
\* i + (m-1)//2], as far as they lie in the array, with the weights
\* 1.0 / m, accumulated in ascending order from 0.0
Smoothed(values, m) ==
    CHOOSE smoothed \in
        {[i \in 1..Len(values) |->
             LET hi == i + (m - 1) \div 2
                 lo == hi - m + 1
             IN  DotFrom(SignedOfInt(0), values, weight,
                         IF lo < 1 THEN 1 ELSE lo,
                         IF hi > Len(values) THEN Len(values) ELSE hi)] :
            weight \in {DoubleRatio(1, m)}} : TRUE

\* np.abs(np.diff(x))
AbsDiff(x) ==
    CHOOSE deltas \in
        {[i \in 1..(Len(list) - 1) |-> SignedDistance(list[i], list[i + 1])] :
            list \in {x}} : TRUE

\* threshold = delta_mean + self.sensitivity * delta_std, for the absolute
\* deltas a
DeltaThreshold(a) ==
    DoubleAdd(DoubleMean(a), DoubleMul(SensitivityDouble, StdOfDoubles(a)))

\* np.abs(deltas)[i] > threshold (i from 1)
LargeDelta(a, threshold, i) == DoubleLess(threshold, a[i])

\* ChangePointDetector.detect_smoothed_delta(values, smoothing_window)
detect_smoothed_delta(values, smoothing_window) ==
    IF Len(values) < smoothing_window * 2 THEN NotDetected
    ELSE CHOOSE found \in
             {IF Len(a) = 0 THEN NotDetected
              ELSE CHOOSE result \in
                       {LET large == {i \in 1..Len(a) :
                                         LargeDelta(a, threshold, i)}
                        IN  IF large # {}
                            THEN [detected |-> TRUE,
                                  idx |-> (CHOOSE i \in large :
                                               \A j \in large : j <= i) - 1]
                            ELSE NotDetected :
                           threshold \in {DeltaThreshold(a)}} : TRUE :
                 a \in {AbsDiff(Smoothed(values, smoothing_window))}} : TRUE

\* the result dictionary ChangePointDetector.detect starts from; the type
\* None is written ""
NoChangepoint ==
    [has_changepoint |-> FALSE, changepoint_type |-> "", changepoint_idx |-> -1,
     details |-> <<>>]

\* mutant: changepoint_idx is the index of the latest detection
RecordChangepoint_LastIdx(results, feature_name, type, idx) ==
    [has_changepoint |-> TRUE,
     changepoint_type |-> type,
     changepoint_idx |-> idx,
     details |-> Append(SelectSeq(results.details,
                                  LAMBDA d : d.feature # feature_name),
                        [feature |-> feature_name, type |-> type, idx |-> idx])]

\* results after a detection of the given type on one feature
RecordChangepoint(results, feature_name, type, idx) ==
    [has_changepoint |-> TRUE,
     changepoint_type |-> type,
     changepoint_idx |-> IF results.changepoint_idx > idx
                         THEN results.changepoint_idx ELSE idx,
     details |-> Append(SelectSeq(results.details,
                                  LAMBDA d : d.feature # feature_name),
                        [feature |-> feature_name, type |-> type, idx |-> idx])]

\* one pass of the loop of ChangePointDetector.detect over a feature
DetectFeature(results, feature_name, values, method, w) ==
    IF Len(values) < w * 2 THEN results
    ELSE IF method \in {"auto", "spike"} /\ detect_spike(values, w).detected
    THEN RecordChangepoint(results, feature_name, "spike",
                           detect_spike(values, w).idx)
    ELSE IF method \in {"auto", "drop"} /\ detect_drop(values, w).detected
    THEN RecordChangepoint(results, feature_name, "drop",
                           detect_drop(values, w).idx)
    ELSE LET shifted ==
                 IF method = "pattern_shift"
                    /\ detect_pattern_shift(values, w).detected
                 THEN RecordChangepoint(results, feature_name, "pattern_shift",
                                        detect_pattern_shift(values, w).idx)
                 ELSE results
         IN  IF method = "smoothed_delta"
                /\ detect_smoothed_delta(values, DefaultSmoothingWindow).detected
             THEN RecordChangepoint(
                      shifted, feature_name, "smoothed_delta",
                      detect_smoothed_delta(values, DefaultSmoothingWindow).idx)
             ELSE shifted

\* np.array(values) of a list that holds a string is an array of strings,
\* on which np.mean and np.convolve raise TypeError
HasNonNumeric(values) == \E i \in DOMAIN values : values[i] = NonNumeric

\* the numpy reductions the method runs on the array of one feature raise:
\* detect_spike, detect_drop and detect_pattern_shift take the means of
\* its windows once it holds two windows, detect_smoothed_delta convolves
\* it once it holds two smoothing windows
DetectRaises(values, method, w) ==
    /\ Len(values) >= w * 2
    /\ HasNonNumeric(values)
    /\ \/ method \in {"auto", "spike", "drop", "pattern_shift"}
       \/ /\ method = "smoothed_delta"
          /\ Len(values) >= DefaultSmoothingWindow * 2

\* ChangePointDetector.detect(feature_values, method); feature_values is the
\* dictionary as the sequence of its items, each [name, values]
RECURSIVE changepoint_detect_from(_, _, _, _)
changepoint_detect_from(results, feature_values, method, w) ==
    IF feature_values = <<>> THEN results
    ELSE IF DetectRaises(Head(feature_values).values, method, w)
    THEN Raised("TypeError")
    ELSE changepoint_detect_from(
             DetectFeature(results, Head(feature_values).name,
                           Head(feature_values).values, method, w),
             Tail(feature_values), method, w)

changepoint_detect(feature_values, method, w) ==
    changepoint_detect_from(NoChangepoint, feature_values, method, w)

-----------------------------------------------------------------------------
(* ComprehensiveAnomalyDetector                                            *)
(*                                                                         *)
(* A field of an event is a number, a value that is not a number (a string *)
(* or null) or absent.  Timestamps are integers in milliseconds; an event  *)
(* whose timestamp is missing or does not parse carries NoTimestamp.       *)
(* Averages and scores are exact fractions [num, den] in lowest terms with *)
(* a positive denominator.                                                 *)

NumField(n) == [kind |-> "int", val |-> n]
StrField == [kind |-> "str", val |-> 0]
NullField == [kind |-> "null", val |-> 0]
AbsentField == [kind |-> "absent", val |-> 0]

\* isinstance(value, (int, float))
IsNumber(field) == field.kind = "int"

\* event.get(key, default) for a numeric default
GetOr(field, default) == IF field.kind = "absent" THEN NumField(default) ELSE field

\* list[:-k] for k > 0
AllButLast(list, k) ==
    IF k >= Len(list) THEN <<>> ELSE SubSeq(list, 1, Len(list) - k)

\* the entry at index i (from 0) of sorted(s)
SortedAt(s, i) ==
    CHOOSE v \in {s[j] : j \in DOMAIN s} :
        /\ Cardinality({j \in DOMAIN s : s[j] < v}) <= i
        /\ Cardinality({j \in DOMAIN s : s[j] <= v}) > i

\* np.percentile(s, q), linear interpolation between the two nearest ranks
Percentile(s, q) ==
    LET rank == q * (Len(s) - 1)
        lo == rank \div 100
        below == SortedAt(s, lo)
        above == IF lo + 1 < Len(s) THEN SortedAt(s, lo + 1) ELSE below
    IN  Frac(100 * below + (rank % 100) * (above - below), 100)

\* np.percentile(s, q) as numpy computes it in doubles: the rank
\* (n - 1) * (q / 100), its whole part lo and its fraction t, and between
\* the two neighbours below and above a + (b - a) * t, or
\* b - (b - a) * (1 - t) when t >= 0.5
DoubleInterpolate(below, above, t) ==
    IF DoubleLess(t, DoubleRatio(1, 2))
    THEN DoubleAdd(DoubleOfInt(below), DoubleMul(DoubleOfInt(above - below), t))
    ELSE DoubleSub(DoubleOfInt(above),
                   DoubleMul(DoubleOfInt(above - below),
                             DoubleSub(DoubleOfInt(1), t)))

DoublePercentile(s, q) ==
    CHOOSE p \in
        {DoubleInterpolate(
             SortedAt(s, DoubleFloor(rank)),
             IF DoubleFloor(rank) + 1 < Len(s)
             THEN SortedAt(s, DoubleFloor(rank) + 1)
             ELSE SortedAt(s, DoubleFloor(rank)),
             DoubleSub(rank, DoubleOfInt(DoubleFloor(rank)))) :
            rank \in {DoubleMul(DoubleOfInt(Len(s) - 1), DoubleRatio(q, 100))}} :
        TRUE

\* capacities of the history rings
ResponseTimeRing == 1000
RateRing == 100
ResourceRing == 500
IpRequestRing == 100

\* 1.0, and the doubles that the score literals of the rules denote
DoubleOne == DoubleOfInt(1)
LiteralScores ==
    [score \in {One, Frac(9, 10), Frac(4, 5), Frac(7, 10), Frac(1, 2)} |->
        DoubleOf(score)]

\* min(1.0, x) on doubles
DoubleMin1(x) ==
    CHOOSE least \in {IF DoubleLess(DoubleOne, d) THEN DoubleOne ELSE d :
                         d \in {x}} : TRUE

\* one fired rule: the dictionary a rule appends, by its type, severity and
\* score. anomaly_score is the value of the rule's score expression as an
\* exact number, score_double the double the code computes for it and
\* stores under "anomaly_score". Anomaly is a rule whose score is a
\* literal.
Anomaly(type, severity, score) ==
    [anomaly_type |-> type, severity |-> severity, anomaly_score |-> score,
     score_double |-> LiteralScores[score]]

\* a rule whose score is min(1.0, x): score is the exact value of x and
\* double the double the code computes for x; an exact value above 1 is
\* far enough above it for the double to be cut to 1.0 as well
Scored(type, severity, score, double) ==
    [anomaly_type |-> type, severity |-> severity,
     anomaly_score |-> Min1(score),
     score_double |-> IF FracLess(One, score) THEN DoubleOne
                      ELSE DoubleMin1(double)]

\* ComprehensiveAnomalyDetector.detect_http_errors; None is the empty list
detect_http_errors(event) ==
    LET status_code == GetOr(event.status_code, 200)
    IN  IF ~IsNumber(status_code) THEN <<>>
        ELSE IF status_code.val >= 500
        THEN <<Anomaly("http_server_error", "critical", One)>>
        ELSE IF status_code.val >= 400
        THEN <<Anomaly("http_client_error", "warning",
                       IF status_code.val = 429 THEN Frac(7, 10) ELSE Frac(1, 2))>>
        ELSE <<>>

\* mutant: the earlier mean is taken over the whole ring
ResponseTimeRules_WholeRing(h) ==
    IF Len(h) < 10 THEN <<>>
    ELSE IF FracLess(FracMul(Mean(h), Frac(2, 1)), Mean(SliceFromMinus(h, 10)))
    THEN <<Anomaly("response_time_spike", "warning", One)
           @@ [increase_ratio |-> FracDiv(Mean(SliceFromMinus(h, 10)), Mean(h))]>>
    ELSE <<>>

\* the response-time rules on the history after the event's value was
\* appended
ResponseTimeRules(h) ==
    IF Len(h) < 10 THEN <<>>
    ELSE LET recent_avg == Mean(SliceFromMinus(h, 10))
             historical_avg == IF Len(h) > 10 THEN Mean(AllButLast(h, 10))
                               ELSE recent_avg
             spike ==
                 IF /\ FracLess(Zero, historical_avg)
                    /\ FracLess(FracMul(historical_avg, Frac(2, 1)), recent_avg)
                 THEN <<Scored("response_time_spike", "warning",
                               FracMul(FracAdd(FracDiv(recent_avg,
                                                       historical_avg),
                                               Frac(-1, 1)),
                                       Frac(1, 2)),
                               DoubleMul(
                                   DoubleSub(DoubleDiv(DoubleOf(recent_avg),
                                                       DoubleOf(historical_avg)),
                                             DoubleOne),
                                   DoubleRatio(1, 2)))
                        @@ [increase_ratio |->
                                FracDiv(recent_avg, historical_avg)]>>
                 ELSE <<>>
             p99 ==
                 IF /\ Len(h) >= 20
                    /\ FloatLess(FracMul(historical_avg, Frac(3, 1)),
                                 Percentile(h, 99),
                                 DoubleMul(DoubleOf(historical_avg),
                                           DoubleOfInt(3)),
                                 DoublePercentile(h, 99))
                 THEN <<Anomaly("p99_latency_spike", "critical", Frac(9, 10))>>
                 ELSE <<>>
         IN  spike \o p99

\* the time in milliseconds between the first and the last of the given
\* events, or NoTimestamp when strptime raises on either
TimeSpan(events) ==
    IF \/ events[Len(events)].timestamp = NoTimestamp
       \/ events[1].timestamp = NoTimestamp
    THEN NoTimestamp
    ELSE events[Len(events)].timestamp - events[1].timestamp

\* the doubles in rps_history: each is 10 / time_span, the time span being
\* total_seconds(), the double nearest to the milliseconds over 1000
RpsDoubles(rates) ==
    [i \in DOMAIN rates |->
        DoubleDiv(DoubleOfInt(10),
                  DoubleRatio(((10 * 1000) \div rates[i].num) * rates[i].den,
                              1000))]

\* the RPS rules: the rps_history afterwards and the rules that fired
RpsRules(h, recent_events) ==
    LET unchanged == [history |-> h, anomalies |-> <<>>]
        last10 == SliceFromMinus(recent_events, 10)
        time_span == TimeSpan(last10)
    IN  IF Len(recent_events) < 10 THEN unchanged
        ELSE IF time_span = NoTimestamp \/ time_span <= 0 THEN unchanged
        ELSE LET current_rps == Frac(Len(last10) * 1000, time_span)
                 after == DequeAppend(h, current_rps, RateRing)
                 recent_rps_avg == FracMean(SliceFromMinus(after, 3))
                 historical_rps_avg == FracMean(AllButLast(after, 3))
                 recent_double == DoubleMean(RpsDoubles(SliceFromMinus(after, 3)))
                 historical_double == DoubleMean(RpsDoubles(AllButLast(after, 3)))
             IN  [history |-> after,
                  anomalies |->
                      IF Len(after) < 5 THEN <<>>
                      ELSE IF /\ FracLess(Zero, historical_rps_avg)
                              /\ FloatLess(FracMul(historical_rps_avg, Frac(2, 1)),
                                           recent_rps_avg,
                                           DoubleMul(historical_double,
                                                     DoubleOfInt(2)),
                                           recent_double)
                      THEN <<Scored("rps_spike", "warning",
                                    FracMul(FracAdd(FracDiv(recent_rps_avg,
                                                            historical_rps_avg),
                                                    Frac(-1, 1)),
                                            Frac(3, 10)),
                                    DoubleMul(
                                        DoubleSub(DoubleDiv(recent_double,
                                                            historical_double),
                                                  DoubleOne),
                                        DoubleRatio(3, 10)))>>
                      ELSE IF /\ FracLess(Zero, historical_rps_avg)
                              /\ FloatLess(recent_rps_avg,
                                           FracMul(historical_rps_avg, Frac(3, 10)),
                                           recent_double,
                                           DoubleMul(historical_double,
                                                     DoubleRatio(3, 10)))
                      THEN <<Anomaly("rps_drop", "critical", Frac(4, 5))>>
                      ELSE <<>>]

\* the doubles in error_rate_history: each is error_count / len(recent_events)
Doubles(rates) == [i \in DOMAIN rates |-> DoubleOf(rates[i])]

\* the error-rate rules: the error_rate_history afterwards and the rules
\* that fired
ErrorRateRules(h, recent_events) ==
    IF Len(recent_events) < 10 THEN [history |-> h, anomalies |-> <<>>]
    ELSE LET error_count ==
                 Cardinality({i \in DOMAIN recent_events :
                                 /\ IsNumber(recent_events[i].status_code)
                                 /\ recent_events[i].status_code.val >= 400})
             after == DequeAppend(h, Frac(error_count, Len(recent_events)),
                                  RateRing)
             recent_error_rate == FracMean(SliceFromMinus(after, 3))
             historical_error_rate == FracMean(AllButLast(after, 3))
             recent_double == DoubleMean(Doubles(SliceFromMinus(after, 3)))
             historical_double == DoubleMean(Doubles(AllButLast(after, 3)))
         IN  [history |-> after,
              anomalies |->
                  IF Len(after) < 5 THEN <<>>
                  ELSE IF /\ FloatLess(historical_error_rate, Frac(1, 10),
                                       historical_double, DoubleRatio(1, 10))
                          /\ FloatLess(Frac(1, 5), recent_error_rate,
                                       DoubleRatio(1, 5), recent_double)
                  THEN <<Scored("error_rate_spike",
                                IF FloatLess(Frac(1, 2), recent_error_rate,
                                             DoubleRatio(1, 2), recent_double)
                                THEN "critical" ELSE "warning",
                                FracMul(recent_error_rate, Frac(2, 1)),
                                DoubleMul(recent_double, DoubleOfInt(2)))>>
                  ELSE <<>>]

\* ComprehensiveAnomalyDetector.detect_performance_anomalies on the detector
\* cd: the rings afterwards and the rules that fired, or the error raised by
\* response_time > 0 on a value that is not a number (PerformanceAnomalies
\* takes the event's response_time and what the RPS and error-rate rules gave)
PerformanceAnomalies(cd, response_time, rps, rate) ==
    LET rt_after == IF response_time.val > 0
                    THEN DequeAppend(cd.response_time_history, response_time.val,
                                     ResponseTimeRing)
                    ELSE cd.response_time_history
    IN  IF ~IsNumber(response_time)
        THEN [raised |-> TRUE, error |-> "TypeError"]
        ELSE [raised |-> FALSE,
              response_time_history |-> rt_after,
              rps_history |-> rps.history,
              error_rate_history |-> rate.history,
              anomalies |-> (IF response_time.val > 0
                             THEN ResponseTimeRules(rt_after) ELSE <<>>)
                            \o rps.anomalies \o rate.anomalies]

detect_performance_anomalies(cd, event, recent_events) ==
    PerformanceAnomalies(cd, GetOr(event.response_time, 0),
                         RpsRules(cd.rps_history, recent_events),
                         ErrorRateRules(cd.error_rate_history, recent_events))

\* the CPU rules on the history after the event's value was appended
CpuRules(h) ==
    IF Len(h) < 5 THEN <<>>
    ELSE LET recent_avg == Mean(SliceFromMinus(h, 3))
             historical_avg == Mean(AllButLast(h, 3))
         IN  (IF /\ FloatLess(FracMul(historical_avg, Frac(3, 2)), recent_avg,
                              DoubleMul(DoubleOf(historical_avg),
                                        DoubleRatio(3, 2)),
                              DoubleOf(recent_avg))
                 /\ FracLess(Frac(70, 1), recent_avg)
              THEN <<Scored("cpu_spike",
                            IF FracLess(recent_avg, Frac(90, 1))
                            THEN "warning" ELSE "critical",
                            FracMul(FracAdd(recent_avg, Frac(-70, 1)),
                                    Frac(1, 30)),
                            DoubleDiv(DoubleSub(DoubleOf(recent_avg),
                                                DoubleOfInt(70)),
                                      DoubleOfInt(30)))>>
              ELSE <<>>)
             \o (IF ~FracLess(recent_avg, Frac(95, 1))
                 THEN <<Anomaly("cpu_saturated", "critical", One)>>
                 ELSE <<>>)

\* the memory rules on the history after the event's value was appended
MemoryRules(h) ==
    IF Len(h) < 10 THEN <<>>
    ELSE LET recent_avg == Mean(SliceFromMinus(h, 5))
             historical_avg == Mean(AllButLast(h, 5))
         IN  (IF /\ FloatLess(FracMul(historical_avg, Frac(6, 5)), recent_avg,
                              DoubleMul(DoubleOf(historical_avg),
                                        DoubleRatio(6, 5)),
                              DoubleOf(recent_avg))
                 /\ FracLess(Frac(80, 1), recent_avg)
              THEN <<Scored("memory_leak",
                            IF FracLess(recent_avg, Frac(90, 1))
                            THEN "warning" ELSE "critical",
                            FracMul(FracAdd(recent_avg, Frac(-80, 1)),
                                    Frac(1, 20)),
                            DoubleDiv(DoubleSub(DoubleOf(recent_avg),
                                                DoubleOfInt(80)),
                                      DoubleOfInt(20)))>>
              ELSE <<>>)
             \o (IF ~FracLess(recent_avg, Frac(95, 1))
                 THEN <<Anomaly("oom_imminent", "critical", One)>>
                 ELSE <<>>)

\* ComprehensiveAnomalyDetector.detect_resource_anomalies: the rings
\* afterwards and the rules that fired
detect_resource_anomalies(cd, event) ==
    LET cpu_usage == GetOr(event.cpu_usage, 0)
        cpu_recorded == IsNumber(cpu_usage) /\ cpu_usage.val > 0
        cpu_after == IF cpu_recorded
                     THEN DequeAppend(cd.cpu_history, cpu_usage.val, ResourceRing)
                     ELSE cd.cpu_history
        memory_usage == GetOr(event.memory_usage, 0)
        memory_recorded == IsNumber(memory_usage) /\ memory_usage.val > 0
        memory_after == IF memory_recorded
                        THEN DequeAppend(cd.memory_history, memory_usage.val,
                                         ResourceRing)
                        ELSE cd.memory_history
    IN  [cpu_history |-> cpu_after,
         memory_history |-> memory_after,
         anomalies |-> (IF cpu_recorded THEN CpuRules(cpu_after) ELSE <<>>)
                       \o (IF memory_recorded THEN MemoryRules(memory_after)
                           ELSE <<>>)]

\* self.ip_requests[ip] of an address not seen before
NewIp == [count |-> 0, endpoints |-> {}, requests |-> <<>>]

\* rps / 10 for rps = 10 / time_span, the time span being total_seconds(),
\* the double nearest to the milliseconds over 1000
RapidScore(time_span) ==
    DoubleDiv(DoubleDiv(DoubleOfInt(10), DoubleRatio(time_span, 1000)),
              DoubleOfInt(10))

\* mutant: every one of the last ten timestamps is parsed
IpRules_ParseAll(ip_data) ==
    (IF ip_data.count > 50
     THEN <<Scored("suspicious_ip_activity", "warning",
                   Frac(ip_data.count, 100), DoubleRatio(ip_data.count, 100))>>
     ELSE <<>>)
    \o (IF Len(ip_data.requests) < 10 THEN <<>>
        ELSE IF \E i \in DOMAIN SliceFromMinus(ip_data.requests, 10) :
                   SliceFromMinus(ip_data.requests, 10)[i].timestamp = NoTimestamp
        THEN <<>>
        ELSE IF /\ TimeSpan(SliceFromMinus(ip_data.requests, 10)) > 0
                /\ TimeSpan(SliceFromMinus(ip_data.requests, 10)) < 2000
        THEN <<Scored("rapid_request_pattern", "warning",
                      Frac(1000, TimeSpan(SliceFromMinus(ip_data.requests, 10))),
                      RapidScore(TimeSpan(SliceFromMinus(ip_data.requests,
                                                         10))))>>
        ELSE <<>>)

\* the rules on one address after the event was recorded for it
IpRules(ip_data) ==
    (IF ip_data.count > 50
     THEN <<Scored("suspicious_ip_activity", "warning",
                   Frac(ip_data.count, 100), DoubleRatio(ip_data.count, 100))>>
     ELSE <<>>)
    \o (IF Len(ip_data.requests) < 10 THEN <<>>
        ELSE LET time_span == TimeSpan(SliceFromMinus(ip_data.requests, 10))
             IN  IF /\ time_span # NoTimestamp
                    /\ time_span > 0
                    /\ time_span < 10 * 1000
                    /\ FracLess(Frac(5, 1), Frac(10 * 1000, time_span))
                 THEN <<Scored("rapid_request_pattern", "warning",
                               FracMul(Frac(10 * 1000, time_span), Frac(1, 10)),
                               RapidScore(time_span))>>
                 ELSE <<>>)

\* the endpoints of the given events in the order of their first occurrence
RECURSIVE FirstSeen(_, _)
FirstSeen(events, seen) ==
    IF events = <<>> THEN <<>>
    ELSE IF Head(events).endpoint \in seen THEN FirstSeen(Tail(events), seen)
    ELSE <<Head(events).endpoint>>
         \o FirstSeen(Tail(events), seen \cup {Head(events).endpoint})

\* the endpoint rule over recent_events[-50:]
EndpointRules(recent_events) ==
    LET window == SliceFromMinus(recent_events, 50)
        count(ep) == Cardinality({i \in DOMAIN window : window[i].endpoint = ep})
        attacked == SelectSeq(FirstSeen(window, {}), LAMBDA ep : count(ep) > 30)
    IN  [i \in DOMAIN attacked |->
            Scored("endpoint_attack", "warning",
                   Frac(count(attacked[i]), 50),
                   DoubleRatio(count(attacked[i]), 50))]

\* mutant: the request count of an address is the length of its ring
detect_security_anomalies_RingCount(cd, event, recent_events) ==
    LET requests == DequeAppend(cd.ip_requests[event.ip].requests,
                                event, IpRequestRing)
        ip_data == [count |-> Len(requests),
                    endpoints |-> cd.ip_requests[event.ip].endpoints
                                  \cup {event.endpoint},
                    requests |-> requests]
    IN  IF event.ip # "unknown"
        THEN [ip_requests |-> [cd.ip_requests EXCEPT ![event.ip] = ip_data],
              anomalies |-> IpRules(ip_data) \o EndpointRules(recent_events)]
        ELSE [ip_requests |-> cd.ip_requests,
              anomalies |-> EndpointRules(recent_events)]

\* ComprehensiveAnomalyDetector.detect_security_anomalies: ip_requests
\* afterwards and the rules that fired; an event without ip and remote_addr
\* has the ip "unknown"
detect_security_anomalies(cd, event, recent_events) ==
    LET ip_data == [count |-> cd.ip_requests[event.ip].count + 1,
                    endpoints |-> cd.ip_requests[event.ip].endpoints
                                  \cup {event.endpoint},
                    requests |-> DequeAppend(cd.ip_requests[event.ip].requests,
                                             event, IpRequestRing)]
    IN  IF event.ip # "unknown"
        THEN [ip_requests |-> [cd.ip_requests EXCEPT ![event.ip] = ip_data],
              anomalies |-> IpRules(ip_data) \o EndpointRules(recent_events)]
        ELSE [ip_requests |-> cd.ip_requests,
              anomalies |-> EndpointRules(recent_events)]

\* max(anomalies, key=anomaly_score): the first of those whose double no
\* other exceeds
MaxByScore(anomalies) ==
    anomalies[CHOOSE i \in DOMAIN anomalies :
                  /\ \A j \in DOMAIN anomalies :
                         ~DoubleLess(anomalies[i].score_double,
                                     anomalies[j].score_double)
                  /\ \A j \in 1..(i - 1) :
                         DoubleLess(anomalies[j].score_double,
                                    anomalies[i].score_double)]

\* mutant: the highest-scoring rule whatever its severity
Aggregate_HighestOfAll(all_anomalies) ==
    IF all_anomalies # <<>>
    THEN [is_anomaly |-> TRUE,
          anomaly_score |-> MaxByScore(all_anomalies).anomaly_score,
          score_double |-> MaxByScore(all_anomalies).score_double,
          anomaly_type |-> MaxByScore(all_anomalies).anomaly_type,
          severity |-> MaxByScore(all_anomalies).severity,
          details |-> MaxByScore(all_anomalies),
          all_anomalies |-> all_anomalies,
          anomaly_count |-> Len(all_anomalies)]
    ELSE [is_anomaly |-> FALSE, anomaly_score |-> Zero,
          score_double |-> DoubleZero,
          anomaly_type |-> "normal", severity |-> "info"]

\* the result ComprehensiveAnomalyDetector.detect builds from the rules that
\* fired
Aggregate(all_anomalies) ==
    LET critical_anomalies ==
            SelectSeq(all_anomalies, LAMBDA a : a.severity = "critical")
        max_score_anomaly ==
            IF critical_anomalies # <<>> THEN MaxByScore(critical_anomalies)
            ELSE MaxByScore(all_anomalies)
    IN  IF all_anomalies # <<>>
        THEN [is_anomaly |-> TRUE,
              anomaly_score |-> max_score_anomaly.anomaly_score,
              score_double |-> max_score_anomaly.score_double,
              anomaly_type |-> max_score_anomaly.anomaly_type,
              severity |-> max_score_anomaly.severity,
              details |-> max_score_anomaly,
              all_anomalies |-> all_anomalies,
              anomaly_count |-> Len(all_anomalies)]
        ELSE [is_anomaly |-> FALSE, anomaly_score |-> Zero,
              score_double |-> DoubleZero,
              anomaly_type |-> "normal", severity |-> "info"]

\* the rules ComprehensiveAnomalyDetector.detect collects, in order, with
\* the detector afterwards; raised when detect_performance_anomalies raises
\* (Collected takes what the four rule groups gave)
Collected(http_error, performance, resource, security) ==
    IF performance.raised
    THEN [raised |-> TRUE, error |-> performance.error]
    ELSE [raised |-> FALSE,
          response_time_history |-> performance.response_time_history,
          rps_history |-> performance.rps_history,
          error_rate_history |-> performance.error_rate_history,
          cpu_history |-> resource.cpu_history,
          memory_history |-> resource.memory_history,
          ip_requests |-> security.ip_requests,
          all_anomalies |-> http_error \o performance.anomalies
                            \o resource.anomalies \o security.anomalies]

CollectAnomalies(cd, event, recent_events) ==
    Collected(detect_http_errors(event),
              detect_performance_anomalies(cd, event, recent_events),
              detect_resource_anomalies(cd, event),
              detect_security_anomalies(cd, event, recent_events))

\* ComprehensiveAnomalyDetector.detect(event, recent_events) on the detector
\* cd: the detector afterwards and the result, or the error raised
\* (DetectOutcome takes the rules collected)
DetectOutcome(cd, collected) ==
    IF collected.raised
    THEN [cd EXCEPT !.calls = @ + 1, !.ret = Raised(collected.error)]
    ELSE [response_time_history |-> collected.response_time_history,
          rps_history |-> collected.rps_history,
          error_rate_history |-> collected.error_rate_history,
          cpu_history |-> collected.cpu_history,
          memory_history |-> collected.memory_history,
          ip_requests |-> collected.ip_requests,
          calls |-> cd.calls + 1,
          ret |-> Aggregate(collected.all_anomalies)]

comprehensive_detect(cd, event, recent_events) ==
    DetectOutcome(cd, CollectAnomalies(cd, event, recent_events))

\* k consecutive calls of detect(event, recent_events): the first half of
\* the calls, then the rest
RECURSIVE comprehensive_detect_times(_, _, _, _)
comprehensive_detect_times(cd, k, event, recent_events) ==
    IF k = 0 THEN cd
    ELSE IF k = 1 THEN comprehensive_detect(cd, event, recent_events)
    ELSE LET first == comprehensive_detect_times(cd, k \div 2, event,
                                                 recent_events)
         IN  IF first.calls >= 0
             THEN comprehensive_detect_times(first, k - k \div 2, event,
                                             recent_events)
             ELSE first

-----------------------------------------------------------------------------
(* Initial states of the components *)

ZInit ==
    /\ window_size \in 2..MaxWindowSize
    /\ history = <<>>
    /\ z_ret = [is_anomaly |-> FALSE, z |-> ZeroScore]
    /\ z_calls = 0

\* AlertManager() as the dashboard constructs it
AMDefaultInit ==
    /\ max_alerts = DefaultMaxAlerts
    /\ alert_threshold = DefaultAlertThreshold
    /\ alerts = <<>>
    /\ recent_alert_hashes = <<>>
    /\ am_call = [op |-> "init"]
    /\ am_ret = NoAlert
    /\ am_list = <<>>
    /\ am_calls = 0
    /\ sweep = 0

\* the names the callers give their windows
WindowNames == {"1m", "5m"}

\* the entry of a name WindowManager.windows does not hold
NoWindow == [present |-> FALSE]

\* WindowManager.windows = {}
NoWindows == [window_name \in WindowNames |-> NoWindow]

\* WindowManager(window_size=500) as the dashboard constructs it
WMDefaultInit ==
    /\ wm_window_size = DashboardWindowSize
    /\ windows = NoWindows
    /\ wm_max_size = DefaultMaxSize
    /\ wm_data_buffer = <<>>
    /\ wm_call = [op |-> "init"]
    /\ wm_ret = <<>>
    /\ wm_adds = 0

\* DetectorManager.__init__ on a configuration that gives only defaults
DMDefaultInit ==
    /\ training_data = <<>>
    /\ is_fitted = FALSE
    /\ dm_method = "hybrid"
    /\ cp_enabled = TRUE
    /\ feature_names = <<>>
    /\ fit_calls = 0
    /\ dm_call = [op |-> "init"]
    /\ dm_ret = NoResult

\* init_session_state
SessionInit ==
    /\ is_running = FALSE
    /\ ss_data_buffer = <<>>
    /\ anomaly_buffer = <<>>
    /\ poll_counter = 0
    /\ last_poll_time = 0
    /\ app_action = "init"

\* DetectorManager.__init__ and init_session_state
AppInit == DMDefaultInit /\ SessionInit

\* ZScoreDetector() as DetectorManager._initialize_detectors constructs it
\* when the configuration gives no window_size
ZIdleInit ==
    /\ window_size = DefaultWindowSize
    /\ history = <<>>
    /\ z_ret = [is_anomaly |-> FALSE, z |-> ZeroScore]
    /\ z_calls = 0

\* ChangePointDetector(sensitivity, min_change, window_size=50) as
\* DetectorManager._initialize_detectors constructs it
CPIdleInit ==
    /\ cp_window_size = DMChangepointWindow
    /\ cp_values = <<>>
    /\ cp_call = [op |-> "init"]
    /\ cp_ret = NotDetected

\* the addresses the model's events come from
CDIps == {"10.0.0.1", "10.0.0.2"}

\* ComprehensiveAnomalyDetector.__init__
CDInit ==
    /\ response_time_history = <<>>
    /\ rps_history = <<>>
    /\ error_rate_history = <<>>
    /\ cpu_history = <<>>
    /\ memory_history = <<>>
    /\ ip_requests = [ip \in CDIps |-> NewIp]
    /\ cd_calls = 0
    /\ cd_call = [op |-> "init"]
    /\ cd_ret = NoResult

\* the second ZScoreDetector, not yet called
ZDIdleInit ==
    /\ solo_history = <<>>
    /\ solo_ret = [is_anomaly |-> FALSE, z |-> ZeroScore]
    /\ zd_call = [op |-> "init"]
    /\ zd_ret = [present |-> FALSE]

\* the WebSocketApp threads that connect() may start in all
MaxWsThreads == 2

\* an IngestManager in the default mode whose start() was not called
IngestIdleInit ==
    /\ mode = "mock"
    /\ connected = FALSE
    /\ recv_buffer = <<>>
    /\ event_queue = <<>>
    /\ queue_lock = "free"
    /\ should_reconnect = TRUE
    /\ duration = 0
    /\ elapsed = 0
    /\ event_count = 0
    /\ collect_pc = "idle"
    /\ worker = [t \in 1..MaxWsThreads |-> [pc |-> "idle"]]
    /\ wire = <<>>
    /\ sent = <<>>
    /\ yielded = <<>>
    /\ fault = "none"
    /\ stopped = FALSE
    /\ starts = 0
    /\ after_stop = 0
    /\ ws_threads = 0
    /\ polls = 0

\* the clock before any alert was stored
ClockIdleInit ==
    /\ clock = 0
    /\ emitted_at = NoTimestamp

\* no call on a named window was made yet
NamedIdleInit ==
    /\ nw_updates = 0
    /\ nw_call = [op |-> "init"]
    /\ nw_ret = <<>>

-----------------------------------------------------------------------------
(* SpecZ: a ZScoreDetector under any sequence of predict and fit calls *)

\* the arrays fit is called on
MaxFitLen == 3
FitArrays == UNION {[1..k -> ZValues] : k \in 0..MaxFitLen}

\* ZScoreDetector.fit(values): the new history, values.tolist()[-window_size:]
zscore_fit(values, wsize) == SliceFromMinus(values, wsize)

\* one call of ZScoreDetector.fit(values)
Fit ==
    /\ \E values \in FitArrays : history' = zscore_fit(values, window_size)
    /\ UNCHANGED <<window_size, z_ret, z_calls, notz>>

\* one call of ZScoreDetector.predict(value)
Predict ==
    /\ z_calls < MaxPredicts
    /\ \E value \in ZValues :
         LET r == predict(history, value, window_size)
         IN  /\ history' = r.history
             /\ z_ret' = [is_anomaly |-> r.is_anomaly, z |-> r.z]
    /\ z_calls' = z_calls + 1
    /\ UNCHANGED <<window_size, notz>>

ZNext == Predict \/ Fit

SpecZInit == ZInit /\ AMDefaultInit /\ WMDefaultInit /\ AppInit /\ CPIdleInit /\ CDInit
    /\ ZDIdleInit /\ IngestIdleInit /\ ClockIdleInit /\ NamedIdleInit

SpecZ == SpecZInit /\ [][ZNext]_vars

-----------------------------------------------------------------------------
(* SpecAlert: an AlertManager under create_alert calls on any inputs *)

\* bounds and input sets of SpecAlert
MaxAlertCalls == 3
AlertScores == {0, 699, 700, 899, 900}
AlertThresholds == {500, DefaultAlertThreshold, 900}
AlertStatuses ==
    {IntStatus(200), IntStatus(400), IntStatus(499), IntStatus(500),
     StrStatus, AbsentStatus}

DetectionResults ==
    [is_anomaly : BOOLEAN, anomaly_score : AlertScores,
     method : {"hybrid"}, changepoint : {""}]

AlertEvents == {NoEvent} \cup {Event("/api", st) : st \in AlertStatuses}

AlertInit ==
    /\ max_alerts = DefaultMaxAlerts
    /\ alert_threshold \in AlertThresholds
    /\ alerts = <<>>
    /\ recent_alert_hashes = <<>>
    /\ am_call = [op |-> "init"]
    /\ am_ret = NoAlert
    /\ am_list = <<>>
    /\ am_calls = 0
    /\ sweep = 0

\* one call of AlertManager.create_alert(detection_result, event)
CreateAlert(detection_result, event) ==
    LET r == create_alert(alerts, recent_alert_hashes, detection_result, event,
                          alert_threshold, max_alerts)
    IN  /\ alerts' = r.alerts
        /\ recent_alert_hashes' = r.hashes
        /\ am_ret' = r.ret
        /\ am_call' = [op |-> "create_alert",
                       detection_result |-> detection_result, event |-> event]
        /\ UNCHANGED <<max_alerts, alert_threshold, am_list>>

AlertCreate ==
    /\ am_calls < MaxAlertCalls
    /\ \E detection_result \in DetectionResults, event \in AlertEvents :
         CreateAlert(detection_result, event)
    /\ am_calls' = am_calls + 1
    /\ UNCHANGED <<sweep, notam>>

AlertNext == AlertCreate

SpecAlertInit == AlertInit /\ ZIdleInit /\ WMDefaultInit /\ AppInit /\ CPIdleInit /\ CDInit
    /\ ZDIdleInit /\ IngestIdleInit /\ ClockIdleInit /\ NamedIdleInit

SpecAlert == SpecAlertInit /\ [][AlertNext]_vars

-----------------------------------------------------------------------------
(* SpecDedup: the default AlertManager fed a sweep of HTTP errors, each    *)
(* with a status code not sent before, interleaved with one recurring      *)
(* 500 on a fixed endpoint.  The sweep is long enough to push a            *)
(* fingerprint out of the fingerprint ring.                                *)

MaxSweep == 101

\* what the detectors report for the swept events: nothing anomalous
QuietResult ==
    [is_anomaly |-> FALSE, anomaly_score |-> 0, method |-> "hybrid",
     changepoint |-> ""]

SweepEvent(k) == Event("/sweep", IntStatus(400 + k))
RecurringEvent == Event("/api", IntStatus(500))

DedupFresh ==
    /\ sweep < MaxSweep
    /\ CreateAlert(QuietResult, SweepEvent(sweep))
    /\ sweep' = sweep + 1
    /\ UNCHANGED <<am_calls, notam>>

DedupRecurring ==
    /\ CreateAlert(QuietResult, RecurringEvent)
    /\ UNCHANGED <<am_calls, sweep, notam>>

DedupNext == DedupFresh \/ DedupRecurring

SpecDedupInit == AMDefaultInit /\ ZIdleInit /\ WMDefaultInit /\ AppInit /\ CPIdleInit /\ CDInit
    /\ ZDIdleInit /\ IngestIdleInit /\ ClockIdleInit /\ NamedIdleInit

SpecDedup == SpecDedupInit /\ [][DedupNext]_vars

-----------------------------------------------------------------------------
(* SpecRing: an AlertManager with a small max_alerts under create_alert,   *)
(* acknowledge_alert and clear_alerts; the events sweep over client and    *)
(* server error statuses in turn, so that both rings fill and overflow.    *)

RingMaxAlerts == 3
MaxRingSweep == 102

\* the k-th event of the sweep: 400, 500, 401, 501, ...
RingEvent(k) ==
    Event("/sweep", IntStatus((IF k % 2 = 0 THEN 400 ELSE 500) + (k \div 2)))

\* mutant: the index counts from the oldest alert
acknowledge_alert_FromOldest(als, alert_index) ==
    IF 0 <= alert_index /\ alert_index < Len(als)
    THEN [als EXCEPT ![alert_index + 1].acknowledged = TRUE]
    ELSE als

\* AlertManager.acknowledge_alert(alert_index)
acknowledge_alert(als, alert_index) ==
    IF 0 <= alert_index /\ alert_index < Len(als)
    THEN [als EXCEPT ![Len(als) - alert_index].acknowledged = TRUE]
    ELSE als

\* mutant: the level is ignored
clear_alerts_All(als, level) == <<>>

\* AlertManager.clear_alerts(level); level "" stands for None
clear_alerts(als, level) ==
    IF level # ""
    THEN SelectSeq(als, LAMBDA a : a.level # level)
    ELSE <<>>

\* AlertManager.get_stats()
get_stats(als, threshold) ==
    [total_alerts |-> Len(als),
     level_counts |->
        [level \in {als[i].level : i \in 1..Len(als)} |->
            Len(SelectSeq(als, LAMBDA a : a.level = level))],
     unacknowledged |-> Len(SelectSeq(als, LAMBDA a : ~a.acknowledged)),
     alert_threshold |-> threshold]

\* AlertManager.get_recent_alerts(count, level); level "" stands for None.
\* alerts[-count:] is the slice of get_recent_events
get_recent_alerts(als, count, level) ==
    SliceFromMinus(IF level # ""
                   THEN SelectSeq(als, LAMBDA a : a.level = level)
                   ELSE als,
                   count)

RingInit ==
    /\ max_alerts \in 2..RingMaxAlerts
    /\ alert_threshold = DefaultAlertThreshold
    /\ alerts = <<>>
    /\ recent_alert_hashes = <<>>
    /\ am_call = [op |-> "init"]
    /\ am_ret = NoAlert
    /\ am_list = <<>>
    /\ am_calls = 0
    /\ sweep = 0

RingCreate ==
    /\ sweep < MaxRingSweep
    /\ CreateAlert(QuietResult, RingEvent(sweep))
    /\ sweep' = sweep + 1
    /\ UNCHANGED <<am_calls, notam>>

RingAcknowledge ==
    \E alert_index \in {-1, 0, 1, RingMaxAlerts + 1} :
        /\ alerts' = acknowledge_alert(alerts, alert_index)
        /\ am_call' = [op |-> "acknowledge_alert", alert_index |-> alert_index]
        /\ UNCHANGED <<max_alerts, alert_threshold, recent_alert_hashes,
                       am_ret, am_list, am_calls, sweep, notam>>

RingClear ==
    \E level \in {"", "warning", "critical"} :
        /\ alerts' = clear_alerts(alerts, level)
        /\ am_call' = [op |-> "clear_alerts", level |-> level]
        /\ UNCHANGED <<max_alerts, alert_threshold, recent_alert_hashes,
                       am_ret, am_list, am_calls, sweep, notam>>

\* create_alert for an event the sweep has sent before: its first or its
\* latest
RingRepeat ==
    /\ sweep >= 1
    /\ \E k \in {0, sweep - 1} : CreateAlert(QuietResult, RingEvent(k))
    /\ UNCHANGED <<am_calls, sweep, notam>>

RingNext == RingCreate \/ RingAcknowledge \/ RingClear \/ RingRepeat

SpecRingInit == RingInit /\ ZIdleInit /\ WMDefaultInit /\ AppInit /\ CPIdleInit /\ CDInit
    /\ ZDIdleInit /\ IngestIdleInit /\ ClockIdleInit /\ NamedIdleInit

SpecRing == SpecRingInit /\ [][RingNext]_vars

-----------------------------------------------------------------------------
(* SpecRecent: an AlertManager with a small max_alerts under create_alert  *)
(* on the sweep of client and server errors, and get_recent_alerts with    *)
(* and without a level.                                                    *)

MaxRecentSweep == 5
RecentCounts == {0, 1, 2, 50}
RecentLevels == {"", "warning", "critical"}

RecentCreate ==
    /\ sweep < MaxRecentSweep
    /\ CreateAlert(QuietResult, RingEvent(sweep))
    /\ sweep' = sweep + 1
    /\ UNCHANGED <<am_calls, notam>>

\* one call of AlertManager.get_recent_alerts(count, level)
GetRecentAlerts(count, level) ==
    /\ am_list' = get_recent_alerts(alerts, count, level)
    /\ am_call' = [op |-> "get_recent_alerts", count |-> count, level |-> level]
    /\ UNCHANGED <<max_alerts, alert_threshold, alerts, recent_alert_hashes,
                   am_ret, am_calls, sweep, notam>>

RecentGet ==
    \E count \in RecentCounts, level \in RecentLevels :
        GetRecentAlerts(count, level)

RecentNext == RecentCreate \/ RecentGet

SpecRecentInit == RingInit /\ ZIdleInit /\ WMDefaultInit /\ AppInit /\ CPIdleInit /\ CDInit
    /\ ZDIdleInit /\ IngestIdleInit /\ ClockIdleInit /\ NamedIdleInit

SpecRecent == SpecRecentInit /\ [][RecentNext]_vars

-----------------------------------------------------------------------------
(* SpecAck: an AlertManager with a small max_alerts under create_alert on  *)
(* the sweep of client and server errors, acknowledge_alert, clear_alerts  *)
(* and get_stats.                                                          *)

\* one call of AlertManager.get_stats()
GetStats ==
    /\ am_ret' = get_stats(alerts, alert_threshold)
    /\ am_call' = [op |-> "get_stats"]
    /\ UNCHANGED <<max_alerts, alert_threshold, alerts, recent_alert_hashes,
                   am_list, am_calls, sweep, notam>>

AckNext == RecentCreate \/ RingAcknowledge \/ RingClear \/ GetStats

SpecAckInit == RingInit /\ ZIdleInit /\ WMDefaultInit /\ AppInit /\ CPIdleInit
    /\ CDInit /\ ZDIdleInit /\ IngestIdleInit /\ ClockIdleInit /\ NamedIdleInit

SpecAck == SpecAckInit /\ [][AckNext]_vars

-----------------------------------------------------------------------------
(* SpecExpire: the default AlertManager while one fault keeps producing    *)
(* the same event, a 500 on a fixed endpoint, at varying intervals of the  *)
(* wall clock; nothing else is reported in between.                        *)

\* AlertManager.__init__: the default of deduplication_window, in seconds
deduplication_window == 60

MaxClock == 200
ExpireGaps == {1, 30, 61}

\* create_alert for the recurring event, gap seconds after the previous call
ExpireRecurring ==
    \E gap \in ExpireGaps :
        /\ clock + gap <= MaxClock
        /\ clock' = clock + gap
        /\ CreateAlert(QuietResult, RecurringEvent)
        /\ emitted_at' = IF am_ret' # NoAlert THEN clock' ELSE emitted_at
        /\ UNCHANGED <<am_calls, sweep, zvars, wmvars, dmvars, ssvars, cpvars,
                       cdvars, zdvars, ingvars, nwvars>>

ExpireNext == ExpireRecurring

SpecExpireInit == AMDefaultInit /\ ZIdleInit /\ WMDefaultInit /\ AppInit
    /\ CPIdleInit /\ CDInit /\ ZDIdleInit /\ IngestIdleInit /\ ClockIdleInit
    /\ NamedIdleInit

SpecExpire == SpecExpireInit /\ [][ExpireNext]_vars

-----------------------------------------------------------------------------
(* SpecCP: a ChangePointDetector with a small window_size, each of its     *)
(* methods applied to every short array over CPValues.  The methods read   *)
(* their argument and the three settings and write nothing (self.history   *)
(* is never touched), so a behaviour is one call on one array.             *)

MaxCPWindow == 3
MaxCPLen == 6
MaxSmoothing == 3
CPValues == {0, 1, 4}
CPMethods == {"auto", "spike", "drop", "pattern_shift", "smoothed_delta"}

\* the arrays of at most n values
CPArrays(n) == UNION {[1..k -> CPValues] : k \in 0..n}

RECURSIVE Reverse(_)
Reverse(x) == IF x = <<>> THEN <<>> ELSE Append(Reverse(Tail(x)), Head(x))

\* the feature dictionaries detect is called on: the array alone, the
\* array with its reversal as a second feature, and the array with the
\* reversal of all but its first value as a second feature
CPFeatureValues(values) ==
    { <<[name |-> "f1", values |-> values]>>,
      <<[name |-> "f1", values |-> values],
        [name |-> "f2", values |-> Reverse(values)]>>,
      <<[name |-> "f1", values |-> values],
        [name |-> "f2",
         values |-> Reverse(SubSeq(values, 2, Len(values)))]>> }

CPInit ==
    /\ cp_window_size \in 2..MaxCPWindow
    /\ cp_values \in CPArrays(MaxCPLen)
    /\ cp_call = [op |-> "init"]
    /\ cp_ret = NotDetected

CPSpike ==
    /\ cp_call.op = "init"
    /\ cp_ret' = detect_spike(cp_values, cp_window_size)
    /\ cp_call' = [op |-> "detect_spike"]
    /\ UNCHANGED <<cp_window_size, cp_values, notcp>>

CPDrop ==
    /\ cp_call.op = "init"
    /\ cp_ret' = detect_drop(cp_values, cp_window_size)
    /\ cp_call' = [op |-> "detect_drop"]
    /\ UNCHANGED <<cp_window_size, cp_values, notcp>>

CPPatternShift ==
    /\ cp_call.op = "init"
    /\ cp_ret' = detect_pattern_shift(cp_values, cp_window_size)
    /\ cp_call' = [op |-> "detect_pattern_shift"]
    /\ UNCHANGED <<cp_window_size, cp_values, notcp>>

CPSmoothedDelta ==
    \E smoothing_window \in 1..MaxSmoothing :
        /\ cp_call.op = "init"
        /\ cp_ret' = detect_smoothed_delta(cp_values, smoothing_window)
        /\ cp_call' = [op |-> "detect_smoothed_delta",
                       smoothing_window |-> smoothing_window]
        /\ UNCHANGED <<cp_window_size, cp_values, notcp>>

CPDetect ==
    \E method \in CPMethods, feature_values \in CPFeatureValues(cp_values) :
        /\ cp_call.op = "init"
        /\ cp_ret' = changepoint_detect(feature_values, method, cp_window_size)
        /\ cp_call' = [op |-> "detect", method |-> method,
                       features |-> Len(feature_values),
                       feature_values |-> feature_values]
        /\ UNCHANGED <<cp_window_size, cp_values, notcp>>

CPNext == CPSpike \/ CPDrop \/ CPPatternShift \/ CPSmoothedDelta \/ CPDetect

SpecCPInit == CPInit /\ ZIdleInit /\ AMDefaultInit /\ WMDefaultInit /\ AppInit /\ CDInit
    /\ ZDIdleInit /\ IngestIdleInit /\ ClockIdleInit /\ NamedIdleInit

SpecCP == SpecCPInit /\ [][CPNext]_vars

-----------------------------------------------------------------------------
(* SpecWM: a WindowManager with a small max_size under add_event,          *)
(* get_recent_events and clear, on events with and without a timestamp.    *)

MaxWMSize == 3
MaxWMAdds == 4
MaxTime == 2
WMEvents == [id : {1, 2}, timestamp : {NoTimestamp, 0}]
WMCounts == {NoCount, 0, 1, 2, MaxWMSize + 1}
WMSeconds == {-1, 0, 1}

\* WindowManager(max_size=...): window_size is the default
WMInit ==
    /\ wm_window_size = DefaultNamedSize
    /\ windows = NoWindows
    /\ wm_max_size \in 1..MaxWMSize
    /\ wm_data_buffer = <<>>
    /\ wm_call = [op |-> "init"]
    /\ wm_ret = <<>>
    /\ wm_adds = 0

\* WindowManager.add_event(event), the clock reading now
AddEvent(event, now) ==
    /\ wm_data_buffer' = add_event(wm_data_buffer, event, now, wm_max_size)
    /\ wm_call' = [op |-> "add_event", event |-> event]
    /\ wm_adds' = wm_adds + 1
    /\ UNCHANGED <<wm_max_size, wm_ret, nwvars, notwm>>

\* WindowManager.get_recent_events(count)
GetRecentEvents(count) ==
    /\ wm_ret' = get_recent_events(wm_data_buffer, count)
    /\ wm_call' = [op |-> "get_recent_events", count |-> count]
    /\ UNCHANGED <<wm_max_size, wm_data_buffer, wm_adds, nwvars, notwm>>

\* WindowManager.get_time_window(seconds)
GetTimeWindow(seconds) ==
    /\ wm_ret' = get_time_window(wm_data_buffer, seconds)
    /\ wm_call' = [op |-> "get_time_window", seconds |-> seconds]
    /\ UNCHANGED <<wm_max_size, wm_data_buffer, wm_adds, nwvars, notwm>>

\* WindowManager.clear(window_name): the main ring and the windows map;
\* window_name None is written "", which `if window_name:` treats alike
clear(buffer, wins, window_name) ==
    IF window_name # ""
    THEN [data_buffer |-> buffer,
          windows |-> IF wins[window_name].present
                      THEN [wins EXCEPT ![window_name].items = <<>>]
                      ELSE wins]
    ELSE [data_buffer |-> <<>>, windows |-> NoWindows]

\* WindowManager.clear()
Clear ==
    /\ wm_data_buffer' = clear(wm_data_buffer, windows, "").data_buffer
    /\ windows' = clear(wm_data_buffer, windows, "").windows
    /\ wm_call' = [op |-> "clear"]
    /\ nw_call' = [op |-> "clear", window_name |-> ""]
    /\ wm_adds' = 0
    /\ UNCHANGED <<wm_max_size, wm_ret, wm_window_size, nw_updates, nw_ret,
                   notwm>>

WMAdd ==
    /\ wm_adds < MaxWMAdds
    /\ \E event \in WMEvents, now \in 1..MaxTime : AddEvent(event, now)

WMGetRecent == \E count \in WMCounts : GetRecentEvents(count)

WMGetTimeWindow == \E seconds \in WMSeconds : GetTimeWindow(seconds)

WMNext == WMAdd \/ WMGetRecent \/ WMGetTimeWindow \/ Clear

SpecWMInit == WMInit /\ ZIdleInit /\ AMDefaultInit /\ AppInit /\ CPIdleInit /\ CDInit
    /\ ZDIdleInit /\ IngestIdleInit /\ ClockIdleInit /\ NamedIdleInit

SpecWM == SpecWMInit /\ [][WMNext]_vars

-----------------------------------------------------------------------------
(* SpecWMDefault: the dashboard's WindowManager(window_size=500), whose    *)
(* max_size is the default, fed numbered events past its capacity: one at  *)
(* a time, or a burst of BurstSize consecutive add_event calls taken as    *)
(* one step (bursts start on multiples of BurstSize).                      *)

MaxDefaultAdds == 10002
BurstSize == 1000

\* the n-th event since construction or the last clear; it arrives at time n
NumberedEvent(n) == [id |-> n, timestamp |-> NoTimestamp]

\* add_event called for the events numbered lo..hi in turn (the range is
\* split in two, and the first half is evaluated before the second is begun)
RECURSIVE AddNumbered(_, _, _, _)
AddNumbered(buffer, lo, hi, cap) ==
    IF lo > hi THEN buffer
    ELSE IF lo = hi THEN add_event(buffer, NumberedEvent(lo), lo, cap)
    ELSE LET first == AddNumbered(buffer, lo, (lo + hi) \div 2, cap)
         IN  IF Len(first) >= 0
             THEN AddNumbered(first, (lo + hi) \div 2 + 1, hi, cap)
             ELSE first

WMDefaultAdd ==
    /\ wm_adds < MaxDefaultAdds
    /\ AddEvent(NumberedEvent(wm_adds + 1), wm_adds + 1)

WMDefaultBurst ==
    /\ wm_adds % BurstSize = 0
    /\ wm_adds + BurstSize <= MaxDefaultAdds
    /\ wm_data_buffer' = AddNumbered(wm_data_buffer, wm_adds + 1,
                                     wm_adds + BurstSize, wm_max_size)
    /\ wm_call' = [op |-> "add_event",
                   event |-> NumberedEvent(wm_adds + BurstSize)]
    /\ wm_adds' = wm_adds + BurstSize
    /\ UNCHANGED <<wm_max_size, wm_ret, nwvars, notwm>>

WMDefaultNext == WMDefaultAdd \/ WMDefaultBurst \/ Clear

SpecWMDefaultInit == WMDefaultInit /\ ZIdleInit /\ AMDefaultInit /\ AppInit /\ CPIdleInit /\ CDInit
    /\ ZDIdleInit /\ IngestIdleInit /\ ClockIdleInit /\ NamedIdleInit

SpecWMDefault == SpecWMDefaultInit /\ [][WMDefaultNext]_vars

-----------------------------------------------------------------------------
(* SpecNamed: a WindowManager with a small window_size whose named windows *)
(* are read and fed numbered events, with and without a size.              *)

MaxNamedSize == 3
MaxNamedUpdates == 5

\* the size argument None; negative sizes, on which deque raises, are not
\* passed
NoSize == -1
NamedSizes == {NoSize} \cup 0..MaxNamedSize

\* deque(maxlen=size or self.window_size), created when the name is new
NamedWindow(wins, default_size, window_name, size) ==
    IF wins[window_name].present
    THEN wins[window_name]
    ELSE [present |-> TRUE,
          maxlen |-> IF size = NoSize \/ size = 0 THEN default_size ELSE size,
          items |-> <<>>]

\* WindowManager.get_window(window_name, size): the windows map and the list
get_window(wins, default_size, window_name, size) ==
    [windows |-> [wins EXCEPT ![window_name] =
                     NamedWindow(wins, default_size, window_name, size)],
     ret |-> NamedWindow(wins, default_size, window_name, size).items]

\* WindowManager.update_window(window_name, event, size): the windows map
update_window(wins, default_size, window_name, event, size) ==
    [wins EXCEPT ![window_name] =
        [NamedWindow(wins, default_size, window_name, size) EXCEPT
            !.items = DequeAppend(
                 NamedWindow(wins, default_size, window_name, size).items,
                 event,
                 NamedWindow(wins, default_size, window_name, size).maxlen)]]

\* WindowManager(window_size=...): max_size is the default
NamedInit ==
    /\ wm_window_size \in 1..(MaxNamedSize - 1)
    /\ windows = NoWindows
    /\ wm_max_size = DefaultMaxSize
    /\ wm_data_buffer = <<>>
    /\ wm_call = [op |-> "init"]
    /\ wm_ret = <<>>
    /\ wm_adds = 0

NamedGet ==
    \E window_name \in WindowNames, size \in NamedSizes :
        /\ windows' = get_window(windows, wm_window_size, window_name,
                                 size).windows
        /\ nw_ret' = get_window(windows, wm_window_size, window_name,
                                size).ret
        /\ nw_call' = [op |-> "get_window", window_name |-> window_name,
                       size |-> size]
        /\ UNCHANGED <<wm_window_size, nw_updates, zvars, amvars, wmvars,
                       dmvars, ssvars, cpvars, cdvars, zdvars, ingvars,
                       clkvars>>

NamedUpdate ==
    /\ nw_updates < MaxNamedUpdates
    /\ \E window_name \in WindowNames, size \in NamedSizes :
        /\ windows' = update_window(windows, wm_window_size, window_name,
                                    NumberedEvent(nw_updates + 1), size)
        /\ nw_call' = [op |-> "update_window", window_name |-> window_name,
                       event |-> NumberedEvent(nw_updates + 1),
                       size |-> size]
    /\ nw_updates' = nw_updates + 1
    /\ UNCHANGED <<wm_window_size, nw_ret, zvars, amvars, wmvars, dmvars,
                   ssvars, cpvars, cdvars, zdvars, ingvars, clkvars>>

\* WindowManager.clear(window_name) with a name
NamedClear ==
    \E window_name \in WindowNames :
        /\ wm_data_buffer' =
              clear(wm_data_buffer, windows, window_name).data_buffer
        /\ windows' = clear(wm_data_buffer, windows, window_name).windows
        /\ wm_call' = [op |-> "clear"]
        /\ nw_call' = [op |-> "clear", window_name |-> window_name]
        /\ UNCHANGED <<wm_max_size, wm_ret, wm_adds, wm_window_size,
                       nw_updates, nw_ret, notwm>>

NamedNext == NamedGet \/ NamedUpdate \/ NamedClear \/ Clear

SpecNamedInit == NamedInit /\ NamedIdleInit /\ ZIdleInit /\ AMDefaultInit
    /\ AppInit /\ CPIdleInit /\ CDInit /\ ZDIdleInit /\ IngestIdleInit
    /\ ClockIdleInit

SpecNamed == SpecNamedInit /\ [][NamedNext]_vars

-----------------------------------------------------------------------------
(* SpecApp: the dashboard's stream controls (start, stop, reset) around    *)
(* the pipeline.  The three buttons are render_stream_controls; the        *)
(* pipeline step that runs while is_running holds is the dashboard's main  *)
(* loop, which is not among the source files and is modelled from the      *)
(* specification's data flow (section 2): the event goes to the dashboard  *)
(* data buffer and the Window Manager, its features to the Detector        *)
(* Manager, and the detection result to the anomaly buffer and the Alert   *)
(* Manager.                                                                *)

MaxAppEvents == 3
\* maxlen of the dashboard's data_buffer and anomaly_buffer
DataBufferSize == 1000
AnomalyBufferSize == 500
\* DetectorManager.min_training_samples
MinTrainingSamples == 50

AppEvents ==
    { [present |-> TRUE, id |-> 1, timestamp |-> NoTimestamp,
       endpoint |-> "/api", status_code |-> IntStatus(st), response_time |-> rt]
      : st \in {200, 500}, rt \in {1, 2} }

\* integer square root (Newton's iteration from above)
RECURSIVE IsqrtFrom(_, _)
IsqrtFrom(x, s) ==
    LET t == (s + x \div s) \div 2
    IN  IF t >= s THEN s ELSE IsqrtFrom(x, t)

Isqrt(x) == IF x = 0 THEN 0 ELSE IsqrtFrom(x, x)

\* floor(100^k * num / den) by long division, two decimal digits at a time
RECURSIVE LongDiv(_, _, _, _)
LongDiv(quotient, remainder, den, k) ==
    IF k = 0 THEN quotient
    ELSE LongDiv(100 * quotient + (100 * remainder) \div den,
                 (100 * remainder) % den, den, k - 1)

Centuple(num, den, k) == LongDiv(num \div den, num % den, den, k)

\* A score of the detectors is a double d >= 0.  It is kept as
\* [thousandths |-> k, exact |-> e]: k is the largest whole number of
\* thousandths whose double is at or below d, and e tells whether d is that
\* double itself.  So d > k/1000 written as a literal is k < thousandths,
\* or k = thousandths and not exact; d >= k/1000 is k <= thousandths.
Thousandths(k) == [thousandths |-> k, exact |-> TRUE]

\* a < b for two scores one of which is a whole number of thousandths
ScoreLess(a, b) ==
    \/ a.thousandths < b.thousandths
    \/ a.thousandths = b.thousandths /\ a.exact /\ ~b.exact

\* max(a, b) of Python: b when it is greater, else a
MaxScore(a, b) == IF ScoreLess(a, b) THEN b ELSE a

\* the double max_z_score / threshold against the double of k / 1000, for
\* the exact quotient k / 1000
ZScoreOnGrid(k, h, value) ==
    CHOOSE score \in
        {IF DoubleLess(d, DoubleRatio(k, 1000))
         THEN [thousandths |-> k - 1, exact |-> FALSE]
         ELSE [thousandths |-> k, exact |-> ~DoubleLess(DoubleRatio(k, 1000), d)] :
            d \in {DoubleDiv(z_score(h, value), DoubleOfInt(ZThreshold))}} :
        TRUE

\* ZScoreDetector.detect's anomaly_score = max_z_score / self.threshold
\* (line 140), max_z_score being the z_score that predict(value) returned on
\* the history h and z its exact square: the thousandths are those of the
\* exact quotient unless that is a whole number of thousandths, and then
\* the double decides
ZAnomalyScore(z, h, value) ==
    LET k == Isqrt(Centuple(z.num, z.den, 3) \div (ZThreshold * ZThreshold))
    IN  IF z.num = 0 THEN Thousandths(0)
        ELSE IF BigMul(BigOfInt(z.num), BigOfInt(1000000))
                = BigMul(BigOfInt(z.den),
                         BigMul(BigOfInt(ZThreshold * ZThreshold),
                                BigMul(BigOfInt(k), BigOfInt(k))))
        THEN ZScoreOnGrid(k, h, value)
        ELSE [thousandths |-> k, exact |-> FALSE]

\* the buttons' disabled= arguments in render_stream_controls
StartDisabled == is_running
StopDisabled == ~is_running
\* mutant: the reset button is never disabled
ResetDisabled_Never == FALSE
ResetDisabled == is_running

\* mutant: starting the stream also empties the dashboard's data buffer
Start_ClearsData ==
    /\ ~StartDisabled
    /\ is_running' = TRUE
    /\ last_poll_time' = 0
    /\ poll_counter' = 0
    /\ app_action' = "start"
    /\ ss_data_buffer' = <<>>
    /\ UNCHANGED anomaly_buffer
    /\ UNCHANGED <<zvars, amvars, wmvars, dmvars, cpvars, cdvars,
        zdvars, ingvars, clkvars, nwvars>>

\* the start button
Start ==
    /\ ~StartDisabled
    /\ is_running' = TRUE
    /\ last_poll_time' = 0
    /\ poll_counter' = 0
    /\ app_action' = "start"
    /\ UNCHANGED <<ss_data_buffer, anomaly_buffer>>
    /\ UNCHANGED <<zvars, amvars, wmvars, dmvars, cpvars, cdvars,
        zdvars, ingvars, clkvars, nwvars>>

\* the stop button
Stop ==
    /\ ~StopDisabled
    /\ is_running' = FALSE
    /\ app_action' = "stop"
    /\ UNCHANGED <<ss_data_buffer, anomaly_buffer, poll_counter, last_poll_time>>
    /\ UNCHANGED <<zvars, amvars, wmvars, dmvars, cpvars, cdvars,
        zdvars, ingvars, clkvars, nwvars>>

\* the reset button
Reset ==
    /\ ~ResetDisabled
    /\ ss_data_buffer' = <<>>
    /\ anomaly_buffer' = <<>>
    /\ wm_data_buffer' = clear(wm_data_buffer, windows, "").data_buffer
    /\ windows' = clear(wm_data_buffer, windows, "").windows
    /\ wm_adds' = 0
    /\ wm_call' = [op |-> "clear"]
    /\ nw_call' = [op |-> "clear", window_name |-> ""]
    /\ poll_counter' = 0
    /\ app_action' = "reset"
    /\ UNCHANGED <<is_running, last_poll_time, wm_max_size, wm_ret,
                   wm_window_size, nw_updates, nw_ret>>
    /\ UNCHANGED <<zvars, amvars, dmvars, cpvars, cdvars, zdvars, ingvars,
                   clkvars>>

\* one pipeline step on an event taken from the source at time now
Poll(event, now) ==
    LET stamped == IF event.timestamp = NoTimestamp
                   THEN [event EXCEPT !.timestamp = now] ELSE event
        features == [response_time |-> event.response_time]
        zr == predict(history, event.response_time, window_size)
        detection == [is_anomaly |-> zr.is_anomaly,
                      anomaly_score |->
                          ZAnomalyScore(zr.z, history,
                                        event.response_time).thousandths,
                      method |-> "hybrid", changepoint |-> ""]
        cr == create_alert(alerts, recent_alert_hashes, detection, stamped,
                           alert_threshold, max_alerts)
    IN  /\ ss_data_buffer' = DequeAppend(ss_data_buffer, stamped, DataBufferSize)
        /\ wm_data_buffer' = add_event(wm_data_buffer, event, now, wm_max_size)
        /\ wm_call' = [op |-> "add_event", event |-> event]
        /\ wm_adds' = wm_adds + 1
        /\ training_data' = Append(training_data, features)
        /\ is_fitted' = (is_fitted \/ Len(training_data') >= MinTrainingSamples)
        /\ history' = zr.history
        /\ z_ret' = [is_anomaly |-> zr.is_anomaly, z |-> zr.z]
        /\ z_calls' = z_calls + 1
        /\ anomaly_buffer' = DequeAppend(anomaly_buffer, detection, AnomalyBufferSize)
        /\ alerts' = cr.alerts
        /\ recent_alert_hashes' = cr.hashes
        /\ am_ret' = cr.ret
        /\ am_call' = [op |-> "create_alert",
                       detection_result |-> detection, event |-> stamped]
        /\ poll_counter' = poll_counter + 1
        /\ last_poll_time' = now
        /\ app_action' = "poll"
        /\ UNCHANGED <<is_running, window_size, max_alerts, alert_threshold,
                       am_list, am_calls, sweep, wm_max_size, wm_ret, cpvars,
                       cdvars, zdvars, ingvars, clkvars, nwvars>>
        /\ UNCHANGED <<dm_method, cp_enabled, feature_names, fit_calls,
                       dm_call, dm_ret>>

AppPoll ==
    /\ is_running
    /\ Len(training_data) < MaxAppEvents
    /\ \E event \in AppEvents : Poll(event, Len(training_data) + 1)

AppNext == Start \/ Stop \/ Reset \/ AppPoll

SpecAppInit == AppInit /\ ZIdleInit /\ AMDefaultInit /\ WMDefaultInit /\ CPIdleInit /\ CDInit
    /\ ZDIdleInit /\ IngestIdleInit /\ ClockIdleInit /\ NamedIdleInit

SpecApp == SpecAppInit /\ [][AppNext]_vars

-----------------------------------------------------------------------------
(* DetectorManager                                                         *)
(*                                                                         *)
(* A feature dictionary is a function from feature names to integers.      *)
(* IsolationForestDetector (src/anomaly/iforest_detector.py) is not among  *)
(* the source files; it is modelled from the specification's section 4.5:  *)
(* detect returns a score in [0, 1] with is_anomaly for a score above 0.5, *)
(* and fit either leaves the forest fitted or fails and leaves it as it    *)
(* was.  Which of the two happens, and which score comes back, is the      *)
(* environment's choice.                                                   *)

\* the methods DetectorManager.detect routes on
DMMethods == {"zscore", "isolation_forest", "hybrid"}
\* len(self.training_data) >= 100 and self.training_data[-100:]
ChangepointMinSamples == 100
ChangepointTrail == 100

\* bounds of the DetectorManager specification: single detect calls are made
\* between warm-ups of WarmUpCalls consecutive detect calls on the baseline
\* feature vector
WarmUpCalls == 49
MaxDetects == 3
MaxSamples == 101
DMValues == {1, 10}
DMFeatures == {[response_time |-> v] : v \in DMValues \cup {NonNumeric}}
DMBaseline == [response_time |-> 1]
DMFeatureNames == {<<>>, <<"cpu_usage", "response_time">>}

\* IsolationForestDetector.detect's results, the scores 0.2 and 0.8
IForestScores == {200, 800}
IForestResults ==
    {[present |-> TRUE, is_anomaly |-> s > 500, anomaly_score |-> Thousandths(s)]
     : s \in IForestScores}
\* the forest's result on the baseline features
IForestBaseline ==
    [present |-> TRUE, is_anomaly |-> FALSE, anomaly_score |-> Thousandths(200)]
\* IsolationForestDetector.is_fitted after a call of fit
iforest_fit(succeeds) == succeeds

\* results["details"][feature_name] = entry on a dictionary kept as the
\* sequence of its items: a name already present keeps its place and gets
\* the new entry, a new name goes last
DetailsSet(details, entry) ==
    IF \E i \in 1..Len(details) : details[i].feature = entry.feature
    THEN [i \in 1..Len(details) |->
             IF details[i].feature = entry.feature THEN entry ELSE details[i]]
    ELSE Append(details, entry)

\* mutant: the score is taken from the last feature judged
ZScoreAccumulate_LastZ(acc, name, value, p) ==
    [history |-> p.history,
     anomaly_count |-> acc.anomaly_count + (IF p.is_anomaly THEN 1 ELSE 0),
     max_z |-> p.z,
     max_from |-> [history |-> acc.history, value |-> value],
     details |-> DetailsSet(acc.details,
                            [feature |-> name, is_anomaly |-> p.is_anomaly,
                             z |-> p.z, value |-> value]),
     calls |-> acc.calls + 1,
     last |-> [is_anomaly |-> p.is_anomaly, z |-> p.z]]

\* max_z_score = max(max_z_score, abs(z_score)) takes the new z_score when
\* it is the greater: acc.max_z is the exact square of max_z_score and
\* acc.max_from the history and value predict computed it from; two equal
\* squares are told apart by their doubles
ZScoreGreater(acc, value, p) ==
    /\ p.z.num > 0
    /\ FloatLess(acc.max_z, p.z,
                 z_score(acc.max_from.history, acc.max_from.value),
                 z_score(acc.history, value))

\* the loop of ZScoreDetector.detect over feature_names; acc carries the
\* detector's history, anomaly_count, max_z_score and results["details"],
\* with the number of predict calls made and what the last of them returned
\* the running result after predict gave p for the feature name
ZScoreAccumulate(acc, name, value, p) ==
    [history |-> p.history,
     anomaly_count |-> acc.anomaly_count + (IF p.is_anomaly THEN 1 ELSE 0),
     max_z |-> IF ZScoreGreater(acc, value, p) THEN p.z ELSE acc.max_z,
     max_from |-> IF ZScoreGreater(acc, value, p)
                  THEN [history |-> acc.history, value |-> value]
                  ELSE acc.max_from,
     details |-> DetailsSet(acc.details,
                            [feature |-> name, is_anomaly |-> p.is_anomaly,
                             z |-> p.z, value |-> value]),
     calls |-> acc.calls + 1,
     last |-> [is_anomaly |-> p.is_anomaly, z |-> p.z]]

RECURSIVE zscore_detect_from(_, _, _, _)
zscore_detect_from(acc, features, names, wsize) ==
    IF names = <<>> THEN acc
    ELSE IF Head(names) \notin DOMAIN features
    THEN zscore_detect_from(acc, features, Tail(names), wsize)
    ELSE IF features[Head(names)] = NonNumeric
    THEN zscore_detect_from(acc, features, Tail(names), wsize)
    ELSE CHOOSE r \in
             {zscore_detect_from(next, features, Tail(names), wsize) :
                 next \in {ZScoreAccumulate(acc, Head(names),
                                            features[Head(names)], p) :
                              p \in {predict(acc.history,
                                             features[Head(names)], wsize)}}} :
             TRUE

\* the result dictionary ZScoreDetector.detect builds from the loop's outcome
ZScoreResult(r) ==
    [history |-> r.history, calls |-> r.calls, last |-> r.last,
     result |-> [present |-> TRUE,
                 is_anomaly |-> r.anomaly_count > 0,
                 anomaly_score |-> ZAnomalyScore(r.max_z, r.max_from.history,
                                                 r.max_from.value),
                 details |-> r.details]]

\* ZScoreDetector.detect(features, feature_names) with a list given for
\* feature_names: the result dictionary and the detector's history afterwards
zscore_detect(h, features, names, wsize) ==
    CHOOSE out \in
        {ZScoreResult(r) :
            r \in {zscore_detect_from(
                       [history |-> h, anomaly_count |-> 0,
                        max_z |-> ZeroScore,
                        max_from |-> [history |-> <<>>, value |-> 0],
                        details |-> <<>>, calls |-> 0,
                        last |-> [is_anomaly |-> FALSE, z |-> ZeroScore]],
                       features, names, wsize)}} : TRUE

\* mutant: the forest is fitted again on every call once enough samples exist
add_training_data_Refits(td, fitted, features, fit_succeeds) ==
    LET appended == Append(td, features)
        invoke == Len(appended) >= MinTrainingSamples
    IN  [training_data |-> appended,
         fit_invoked |-> invoke,
         is_fitted |-> IF invoke THEN iforest_fit(fit_succeeds) ELSE fitted]

\* DetectorManager.add_training_data with _train_detectors
add_training_data(td, fitted, features, fit_succeeds) ==
    LET appended == Append(td, features)
        invoke == Len(appended) >= MinTrainingSamples /\ ~fitted
    IN  [training_data |-> appended,
         fit_invoked |-> invoke,
         is_fitted |-> IF invoke THEN iforest_fit(fit_succeeds) ELSE fitted]

\* results["details"] with no entry
NoDetails ==
    [zscore |-> NoResult, isolation_forest |-> NoResult, changepoint |-> NoResult]

\* the results dictionary DetectorManager.detect starts from
Neutral(method) ==
    [is_anomaly |-> FALSE, anomaly_score |-> Thousandths(0), method |-> method,
     details |-> NoDetails]

\* the branch self.method == "zscore"
ZScoreOnly(zr) ==
    [is_anomaly |-> zr.is_anomaly, anomaly_score |-> zr.anomaly_score,
     method |-> "zscore",
     details |-> [NoDetails EXCEPT !.zscore = zr]]

\* the branch self.method == "isolation_forest"; ir is absent when the
\* forest is not fitted
IForestOnly(ir) ==
    IF ir.present
    THEN [is_anomaly |-> ir.is_anomaly, anomaly_score |-> ir.anomaly_score,
          method |-> "isolation_forest",
          details |-> [NoDetails EXCEPT !.isolation_forest = ir]]
    ELSE Neutral("isolation_forest")

\* mutant: both detectors must agree
Hybrid_And(zr, ir) ==
    [is_anomaly |-> IF ir.present THEN zr.is_anomaly /\ ir.is_anomaly
                    ELSE zr.is_anomaly,
     anomaly_score |-> IF ir.present
                       THEN MaxScore(zr.anomaly_score, ir.anomaly_score)
                       ELSE zr.anomaly_score,
     method |-> "hybrid",
     details |-> [NoDetails EXCEPT !.zscore = zr, !.isolation_forest = ir]]

\* the branch self.method == "hybrid"
Hybrid(zr, ir) ==
    [is_anomaly |-> IF ir.present THEN zr.is_anomaly \/ ir.is_anomaly
                    ELSE zr.is_anomaly,
     anomaly_score |-> IF ir.present
                       THEN MaxScore(zr.anomaly_score, ir.anomaly_score)
                       ELSE zr.anomaly_score,
     method |-> "hybrid",
     details |-> [NoDetails EXCEPT !.zscore = zr, !.isolation_forest = ir]]

\* [f.get(feature_name, 0.0) for f in recent_features]
FeatureTrail(recent, name) ==
    [i \in 1..Len(recent) |->
        IF name \in DOMAIN recent[i] THEN recent[i][name] ELSE 0]

\* feature_values: the trail of every configured feature that the first of
\* the recent feature vectors has. It is a dictionary, kept as the sequence
\* of its items: a name configured twice has one item, at its first place
RECURSIVE FeatureValues(_, _)
FeatureValues(recent, names) ==
    IF names = <<>> THEN <<>>
    ELSE LET name == names[Len(names)]
             before == FeatureValues(recent, SubSeq(names, 1, Len(names) - 1))
         IN  IF /\ name \in DOMAIN recent[1]
                /\ \A i \in DOMAIN before : before[i].name # name
             THEN Append(before, [name |-> name,
                                  values |-> FeatureTrail(recent, name)])
             ELSE before

\* the change-point result DetectorManager.detect computes, absent when the
\* detector is not configured, fewer than 100 samples are stored or no
\* configured feature is in the samples; what ChangePointDetector.detect
\* raises is not caught
ChangepointOverlay(td, names, enabled, w) ==
    IF enabled /\ Len(td) >= ChangepointMinSamples
    THEN LET recent == SubSeq(td, Len(td) - ChangepointTrail + 1, Len(td))
             feature_values == FeatureValues(recent, names)
         IN  IF feature_values # <<>>
             THEN CHOOSE cp \in
                      {IF "raised" \in DOMAIN changepoint_result
                       THEN changepoint_result
                       ELSE [present |-> TRUE, result |-> changepoint_result] :
                          changepoint_result \in
                              {changepoint_detect(feature_values, "auto", w)}} :
                      TRUE
             ELSE NoResult
    ELSE NoResult

\* results["details"]["changepoint"] = changepoint_result
AttachChangepoint(results, cp) ==
    IF cp.present THEN [results EXCEPT !.details.changepoint = cp] ELSE results

\* DetectorManager.detect from the routing on: z is what the Z-Score
\* detector gave, ir the forest's result (absent when it was not asked), cp
\* the change-point result or the error ChangePointDetector.detect raised,
\* which detect passes on in place of its result: the training data, the
\* forest and the Z-Score history have changed by then
Routed(dm, cfg, added, z, ir, cp) ==
    LET runs_zscore == cfg.method \in {"zscore", "hybrid"}
        routed == IF cfg.method = "zscore" THEN ZScoreOnly(z.result)
                  ELSE IF cfg.method = "isolation_forest" THEN IForestOnly(ir)
                  ELSE IF cfg.method = "hybrid" THEN Hybrid(z.result, ir)
                  ELSE Neutral(cfg.method)
        predicts == IF runs_zscore THEN z.calls ELSE 0
    IN  [training_data |-> added.training_data,
         is_fitted |-> added.is_fitted,
         fit_calls |-> dm.fit_calls + (IF added.fit_invoked THEN 1 ELSE 0),
         history |-> IF runs_zscore THEN z.history ELSE dm.history,
         z_ret |-> IF predicts > 0 THEN z.last ELSE dm.z_ret,
         z_calls |-> dm.z_calls + predicts,
         fit_invoked |-> added.fit_invoked,
         iforest |-> ir,
         ret |-> IF "raised" \in DOMAIN cp THEN cp
                 ELSE AttachChangepoint(routed, cp)]

\* DetectorManager.detect after add_training_data gave added
Trained(dm, cfg, features, iforest_out, added) ==
    Routed(dm, cfg, added,
           zscore_detect(dm.history, features, cfg.feature_names,
                         cfg.window_size),
           IF cfg.method \in {"isolation_forest", "hybrid"} /\ added.is_fitted
           THEN iforest_out ELSE NoResult,
           ChangepointOverlay(added.training_data, cfg.feature_names,
                              cfg.cp_enabled, cfg.cp_window_size))

\* DetectorManager.detect(features) on the manager dm = [training_data,
\* is_fitted, history, fit_calls, z_ret, z_calls] configured by cfg = [method,
\* feature_names, cp_enabled, window_size, cp_window_size]; fit_succeeds and
\* iforest_out are what the forest does if it is asked
dm_detect(dm, cfg, features, fit_succeeds, iforest_out) ==
    Trained(dm, cfg, features, iforest_out,
            add_training_data(dm.training_data, dm.is_fitted, features,
                              fit_succeeds))

\* k consecutive calls of DetectorManager.detect(features): the first half
\* of the calls, then the rest
RECURSIVE detect_times(_, _, _, _, _, _)
detect_times(dm, cfg, k, features, fit_succeeds, iforest_out) ==
    IF k = 0 THEN dm
    ELSE IF k = 1 THEN dm_detect(dm, cfg, features, fit_succeeds, iforest_out)
    ELSE LET first == detect_times(dm, cfg, k \div 2, features, fit_succeeds,
                                   iforest_out)
         IN  IF first.fit_calls >= 0
             THEN detect_times(first, cfg, k - k \div 2, features, fit_succeeds,
                               iforest_out)
             ELSE first

\* the manager and its configuration in the current state
DMState ==
    [training_data |-> training_data, is_fitted |-> is_fitted,
     history |-> history, fit_calls |-> fit_calls, z_ret |-> z_ret,
     z_calls |-> z_calls, fit_invoked |-> FALSE, iforest |-> NoResult,
     ret |-> dm_ret]
DMConfig ==
    [method |-> dm_method, feature_names |-> feature_names,
     cp_enabled |-> cp_enabled, window_size |-> window_size,
     cp_window_size |-> cp_window_size]

\* DetectorManager(config) for each method, feature list and change-point
\* setting
DMInit ==
    /\ training_data = <<>>
    /\ is_fitted = FALSE
    /\ dm_method \in DMMethods
    /\ cp_enabled \in BOOLEAN
    /\ feature_names \in DMFeatureNames
    /\ fit_calls = 0
    /\ dm_call = [op |-> "init"]
    /\ dm_ret = NoResult

\* the manager after the calls that led to r
DMBecomes(r) ==
    /\ training_data' = r.training_data
    /\ is_fitted' = r.is_fitted
    /\ fit_calls' = r.fit_calls
    /\ history' = r.history
    /\ z_ret' = r.z_ret
    /\ z_calls' = r.z_calls
    /\ dm_ret' = r.ret
    /\ UNCHANGED <<dm_method, cp_enabled, feature_names, window_size,
                   cpvars, notdm>>

\* one call of DetectorManager.detect
DMDetect ==
    /\ Len(training_data) < MaxSamples
    /\ Len(training_data) % WarmUpCalls < MaxDetects
    /\ \E features \in DMFeatures, fit_succeeds \in BOOLEAN,
          iforest_out \in IForestResults :
          \E r \in {dm_detect(DMState, DMConfig, features, fit_succeeds,
                               iforest_out)} :
              /\ DMBecomes(r)
              /\ dm_call' = [op |-> "detect", features |-> features,
                             fit_invoked |-> r.fit_invoked,
                             iforest |-> r.iforest]

\* WarmUpCalls calls of DetectorManager.detect on the baseline features
DMWarmUp ==
    /\ Len(training_data) + WarmUpCalls <= MaxSamples
    /\ \E fit_succeeds \in BOOLEAN :
          \E r \in {detect_times(DMState, DMConfig, WarmUpCalls, DMBaseline,
                                  fit_succeeds, IForestBaseline)} :
              /\ DMBecomes(r)
              /\ dm_call' = [op |-> "warm_up", features |-> DMBaseline,
                             fit_invoked |-> r.fit_calls > fit_calls,
                             iforest |-> r.iforest]

DMNext == DMDetect \/ DMWarmUp

SpecDMInit ==
    DMInit /\ SessionInit /\ ZIdleInit /\ AMDefaultInit /\ WMDefaultInit
    /\ CPIdleInit /\ CDInit /\ ZDIdleInit /\ IngestIdleInit /\ ClockIdleInit
    /\ NamedIdleInit

SpecDM == SpecDMInit /\ [][DMNext]_vars

-----------------------------------------------------------------------------
(* Specification of the ComprehensiveAnomalyDetector: single detect calls  *)
(* between replays of ReplayCalls consecutive detect calls on one event.   *)

ReplayCalls == 9
MaxSingles == 2
MaxCDCalls == 20

CDEvent(status_code, response_time, cpu_usage, memory_usage) ==
    [status_code |-> status_code, response_time |-> response_time,
     cpu_usage |-> cpu_usage, memory_usage |-> memory_usage,
     ip |-> "10.0.0.1", endpoint |-> "/api", timestamp |-> NoTimestamp]

\* a quiet event, a loaded event answered 429 and a saturated one answered 500
CDQuiet == CDEvent(NumField(200), NumField(100), NumField(10), NumField(10))
CDLoaded == CDEvent(NumField(429), NumField(1000), NumField(90), NumField(85))
CDSaturated == CDEvent(NumField(500), NumField(100), NumField(96), NumField(96))

\* a fast event answered in 9 ms and a throttled one answered 429 after
\* 135 ms: ten of the first before one of the second make the response-time
\* score (21.6 / 9 - 1) * 0.5, the double next above 0.7
CDFast == CDEvent(NumField(200), NumField(9), NumField(10), NumField(10))
CDThrottled == CDEvent(NumField(429), NumField(135), NumField(10), NumField(10))

\* events in which one field is present but not a number
CDMalformed ==
    {[CDQuiet EXCEPT !.response_time = StrField],
     [CDQuiet EXCEPT !.response_time = NullField],
     [CDQuiet EXCEPT !.cpu_usage = StrField],
     [CDQuiet EXCEPT !.memory_usage = NullField],
     [CDQuiet EXCEPT !.status_code = StrField]}

\* recent_events: ten events 100 ms apart, ten events 500 ms apart half of
\* them failed, and 31 requests of one endpoint without timestamps
CDSteady ==
    [i \in 1..10 |-> [CDQuiet EXCEPT !.ip = "10.0.0.2",
                                     !.timestamp = 100 * (i - 1)]]
CDFailing ==
    [i \in 1..10 |-> [CDQuiet EXCEPT !.ip = "10.0.0.2",
                                     !.timestamp = 500 * (i - 1),
                                     !.status_code =
                                         NumField(IF i % 2 = 0 THEN 500 ELSE 200)]]
CDFlood ==
    [i \in 1..31 |-> [CDQuiet EXCEPT !.ip = "10.0.0.2", !.endpoint = "/login"]]

CDInputs ==
    {[event |-> e, recent_events |-> <<>>]
        : e \in {CDQuiet, CDLoaded, CDSaturated, CDFast, CDThrottled}
                \cup CDMalformed}
    \cup {[event |-> CDQuiet, recent_events |-> CDSteady],
          [event |-> CDLoaded, recent_events |-> CDFailing],
          [event |-> CDQuiet, recent_events |-> CDFlood]}

CDReplayInputs ==
    {[event |-> CDQuiet, recent_events |-> <<>>],
     [event |-> CDFast, recent_events |-> <<>>],
     [event |-> CDLoaded, recent_events |-> <<>>],
     [event |-> CDQuiet, recent_events |-> CDSteady]}

\* the detector in the current state
CDState ==
    [response_time_history |-> response_time_history,
     rps_history |-> rps_history,
     error_rate_history |-> error_rate_history,
     cpu_history |-> cpu_history,
     memory_history |-> memory_history,
     ip_requests |-> ip_requests,
     calls |-> cd_calls,
     ret |-> cd_ret]

\* the detector after the calls that led to r
CDBecomes(r) ==
    /\ response_time_history' = r.response_time_history
    /\ rps_history' = r.rps_history
    /\ error_rate_history' = r.error_rate_history
    /\ cpu_history' = r.cpu_history
    /\ memory_history' = r.memory_history
    /\ ip_requests' = r.ip_requests
    /\ cd_calls' = r.calls
    /\ cd_ret' = r.ret
    /\ UNCHANGED notcd

\* one call of ComprehensiveAnomalyDetector.detect
CDDetect ==
    /\ cd_calls < MaxCDCalls
    /\ cd_calls % ReplayCalls < MaxSingles
    /\ \E input \in CDInputs :
          \E r \in {comprehensive_detect(CDState, input.event,
                                         input.recent_events)} :
              /\ CDBecomes(r)
              /\ cd_call' = [op |-> "detect", event |-> input.event,
                             recent_events |-> input.recent_events]

\* ReplayCalls calls of ComprehensiveAnomalyDetector.detect on one event
CDReplay ==
    /\ cd_calls + ReplayCalls <= MaxCDCalls
    /\ \E input \in CDReplayInputs :
          \E r \in {comprehensive_detect_times(CDState, ReplayCalls, input.event,
                                               input.recent_events)} :
              /\ CDBecomes(r)
              /\ cd_call' = [op |-> "replay", event |-> input.event,
                             recent_events |-> input.recent_events]

CDNext == CDDetect \/ CDReplay

SpecCDInit ==
    CDInit /\ ZIdleInit /\ AMDefaultInit /\ WMDefaultInit /\ AppInit
    /\ CPIdleInit /\ ZDIdleInit /\ IngestIdleInit /\ ClockIdleInit /\ NamedIdleInit

SpecCD == SpecCDInit /\ [][CDNext]_vars

-----------------------------------------------------------------------------
(* Scenario specifications of the ComprehensiveAnomalyDetector: each feeds *)
(* the detector the events of one rule family, one detect call at a time   *)
(* or a burst of consecutive detect calls on one event.                    *)

\* one call of detect(input.event, input.recent_events)
CDCall(input) ==
    \E r \in {comprehensive_detect(CDState, input.event, input.recent_events)} :
        /\ CDBecomes(r)
        /\ cd_call' = [op |-> "detect", event |-> input.event,
                       recent_events |-> input.recent_events]

\* k consecutive calls of detect(input.event, input.recent_events)
CDBurst(input, k) ==
    \E r \in {comprehensive_detect_times(CDState, k, input.event,
                                         input.recent_events)} :
        /\ CDBecomes(r)
        /\ cd_call' = [op |-> "replay", event |-> input.event,
                       recent_events |-> input.recent_events]

\* the rules of a result: all_anomalies, or none when nothing fired
FiredRules(ret) ==
    IF "raised" \in DOMAIN ret THEN <<>>
    ELSE IF ret.is_anomaly THEN ret.all_anomalies
    ELSE <<>>

\* the rules of the given type among them
FiredOfType(ret, type) ==
    SelectSeq(FiredRules(ret), LAMBDA a : a.anomaly_type = type)

(* SpecRT: events that carry a response time of 0, 100 or 1000 ms and no   *)
(* resource fields.                                                        *)

RTBurst == 10
MaxRTSingles == 3
MaxRTCalls == 30

RTEvent(response_time) ==
    [CDQuiet EXCEPT !.response_time = NumField(response_time),
                    !.cpu_usage = AbsentField, !.memory_usage = AbsentField]
RTInput(response_time) ==
    [event |-> RTEvent(response_time), recent_events |-> <<>>]

RTDetect ==
    /\ cd_calls < MaxRTCalls
    /\ cd_calls % RTBurst < MaxRTSingles
    /\ \E response_time \in {0, 100, 1000} : CDCall(RTInput(response_time))

RTReplay ==
    /\ cd_calls + RTBurst <= MaxRTCalls
    /\ \E response_time \in {100, 1000} :
          CDBurst(RTInput(response_time), RTBurst)

RTNext == RTDetect \/ RTReplay

SpecRT == SpecCDInit /\ [][RTNext]_vars

(* SpecIp: requests of the address 10.0.0.1, the n-th detect call carrying *)
(* the timestamp n * pace milliseconds for a pace chosen call by call, or  *)
(* a timestamp that strptime rejects; some requests come from 10.0.0.2.    *)

IpBurst == 10
MaxIpSingles == 2
MaxIpCalls == 22
IpPaces == {90, 250, 2000}

\* the n-th request, from ip, stamped n * pace ms (pace NoTimestamp: a
\* timestamp that does not parse)
IpEvent(n, pace, ip, status_code) ==
    [CDQuiet EXCEPT !.timestamp = IF pace = NoTimestamp THEN NoTimestamp
                                  ELSE n * pace,
                    !.ip = ip,
                    !.status_code = NumField(status_code),
                    !.cpu_usage = AbsentField, !.memory_usage = AbsentField]

\* k consecutive detect calls on the requests that follow at the given pace
RECURSIVE paced_detect_times(_, _, _, _)
paced_detect_times(cd, k, pace, ip) ==
    IF k = 0 THEN cd
    ELSE IF k = 1
    THEN comprehensive_detect(cd, IpEvent(cd.calls + 1, pace, ip, 200), <<>>)
    ELSE IF paced_detect_times(cd, k \div 2, pace, ip).calls >= 0
    THEN paced_detect_times(paced_detect_times(cd, k \div 2, pace, ip),
                            k - k \div 2, pace, ip)
    ELSE cd

IpDetect ==
    /\ cd_calls < MaxIpCalls
    /\ cd_calls % IpBurst < MaxIpSingles
    /\ \E pace \in IpPaces \cup {NoTimestamp}, status_code \in {200, 500},
          ip \in CDIps :
          /\ ip = "10.0.0.2" => pace = 90 /\ status_code = 200
          /\ CDCall([event |-> IpEvent(cd_calls + 1, pace, ip, status_code),
                     recent_events |-> <<>>])

IpReplay ==
    /\ cd_calls + IpBurst <= MaxIpCalls
    /\ \E pace \in {90, 250} :
          \E r \in {paced_detect_times(CDState, IpBurst, pace, "10.0.0.1")} :
              /\ CDBecomes(r)
              /\ cd_call' = [op |-> "replay",
                             event |-> IpEvent(cd_calls + IpBurst, pace,
                                               "10.0.0.1", 200),
                             recent_events |-> <<>>]

IpNext == IpDetect \/ IpReplay

SpecIp == SpecCDInit /\ [][IpNext]_vars

(* SpecIpCount: long runs of requests of one address, and single requests  *)
(* of either address or of no address at all.                              *)

CountBurst == 50
MaxCountSingles == 2
MaxCountCalls == 102

IpCountDetect ==
    /\ cd_calls < MaxCountCalls
    /\ cd_calls % CountBurst < MaxCountSingles
    /\ \E ip \in CDIps \cup {"unknown"}, status_code \in {200, 500} :
          CDCall([event |-> IpEvent(0, 90, ip, status_code),
                  recent_events |-> <<>>])

IpCountReplay ==
    /\ cd_calls + CountBurst <= MaxCountCalls
    /\ \E ip \in CDIps :
          CDBurst([event |-> IpEvent(0, 90, ip, 200), recent_events |-> <<>>],
                  CountBurst)

IpCountNext == IpCountDetect \/ IpCountReplay

SpecIpCount == SpecCDInit /\ [][IpCountNext]_vars

(* SpecRes: events that carry a CPU load and a memory load of 10 or 96     *)
(* percent, or only one of the two.                                        *)

ResBurst == 3
MaxResSingles == 4
MaxResCalls == 13

ResEvent(cpu_usage, memory_usage) ==
    [CDQuiet EXCEPT !.cpu_usage = cpu_usage, !.memory_usage = memory_usage]

ResInputs ==
    {ResEvent(NumField(10), NumField(10)), ResEvent(NumField(96), NumField(96)),
     ResEvent(NumField(96), AbsentField), ResEvent(AbsentField, NumField(96))}

ResDetect ==
    /\ cd_calls < MaxResSingles
    /\ \E event \in ResInputs :
          CDCall([event |-> event, recent_events |-> <<>>])

ResReplay ==
    /\ cd_calls + ResBurst <= MaxResCalls
    /\ \E load \in {10, 96} :
          CDBurst([event |-> ResEvent(NumField(load), NumField(load)),
                   recent_events |-> <<>>], ResBurst)

ResNext == ResDetect \/ ResReplay

SpecRes == SpecCDInit /\ [][ResNext]_vars

-----------------------------------------------------------------------------
(* SpecZD: ZScoreDetector.detect called with the feature list             *)
(* <<"cpu_usage", "response_time">> on feature vectors that hold cpu_usage *)
(* and may hold response_time, next to a second ZScoreDetector with the    *)
(* same window_size whose predict is called on the cpu_usage values alone. *)

MaxZDCalls == 5
MaxZDWindow == 5
ZDValues == {1, 2, 3}
ZDNames == <<"cpu_usage", "response_time">>
ZDFeatures ==
    {[cpu_usage |-> a] : a \in ZDValues}
    \cup {[cpu_usage |-> a, response_time |-> 1] : a \in ZDValues \ {1}}
    \cup {[cpu_usage |-> 2, response_time |-> NonNumeric]}

ZDInit ==
    /\ window_size = MaxZDWindow
    /\ history = <<>>
    /\ z_ret = [is_anomaly |-> FALSE, z |-> ZeroScore]
    /\ z_calls = 0
    /\ ZDIdleInit /\ IngestIdleInit /\ ClockIdleInit /\ NamedIdleInit

\* detect(features, ZDNames) on the detector, predict(features["cpu_usage"])
\* on the second one
ZDDetect ==
    /\ Len(solo_history) < MaxZDCalls /\ z_calls < 2 * MaxZDCalls
    /\ \E features \in ZDFeatures :
          \E r \in {zscore_detect(history, features, ZDNames, window_size)},
             solo \in {predict(solo_history, features.cpu_usage, window_size)} :
              /\ history' = r.history
              /\ z_ret' = r.last
              /\ z_calls' = z_calls + r.calls
              /\ zd_ret' = r.result
              /\ zd_call' = [op |-> "detect", features |-> features]
              /\ solo_history' = solo.history
              /\ solo_ret' = [is_anomaly |-> solo.is_anomaly, z |-> solo.z]
    /\ UNCHANGED <<window_size, amvars, wmvars, dmvars, ssvars, cpvars, cdvars,
                   ingvars, clkvars, nwvars>>

ZDNext == ZDDetect

SpecZDInit ==
    ZDInit /\ AMDefaultInit /\ WMDefaultInit /\ AppInit /\ CPIdleInit /\ CDInit
    /\ IngestIdleInit /\ ClockIdleInit /\ NamedIdleInit

SpecZD == SpecZDInit /\ [][ZDNext]_vars

-----------------------------------------------------------------------------
(* The ingest layer: IngestManager and the collector of its mode. Bytes    *)
(* and characters are named by strings: the peer's text is made of the     *)
(* characters 1, x, space (SP), newline (LF), the double quote (QUOTE) and *)
(* e-acute (E9), which UTF-8 encodes as the two bytes C3 A9.               *)

DecodeError == "UnicodeDecodeError"

\* bytes.decode('utf-8'): the characters, or a sequence holding DecodeError
RECURSIVE utf8_decode(_)
utf8_decode(data) ==
    IF data = <<>> THEN <<>>
    ELSE IF Head(data) = "C3"
    THEN IF Len(data) >= 2 /\ data[2] = "A9"
         THEN <<"E9">> \o utf8_decode(SubSeq(data, 3, Len(data)))
         ELSE <<DecodeError>>
    ELSE IF Head(data) = "A9" THEN <<DecodeError>>
    ELSE <<Head(data)>> \o utf8_decode(Tail(data))

Raises(decoded) == \E i \in DOMAIN decoded : decoded[i] = DecodeError

\* '\n' in buffer
HasLine(text) == \E i \in DOMAIN text : text[i] = "LF"

\* buffer.split('\n', 1)
split_line(text) ==
    LET i == CHOOSE k \in DOMAIN text :
                 text[k] = "LF" /\ \A j \in 1..(k - 1) : text[j] # "LF"
    IN  [line |-> SubSeq(text, 1, i - 1),
         buffer |-> SubSeq(text, i + 1, Len(text))]

\* str.strip(), and the whitespace json.loads allows around a document
RECURSIVE strip(_)
strip(text) ==
    IF text = <<>> THEN <<>>
    ELSE IF Head(text) \in {"SP", "LF"} THEN strip(Tail(text))
    ELSE IF text[Len(text)] \in {"SP", "LF"}
    THEN strip(SubSeq(text, 1, Len(text) - 1))
    ELSE text

\* the number written as n ones
RECURSIVE Ones(_)
Ones(n) == IF n = 0 THEN 0 ELSE 10 * Ones(n - 1) + 1

\* json.loads(text): the value, or ok = FALSE for json.JSONDecodeError
json_loads(text) ==
    LET doc == strip(text)
    IN  IF doc # <<>> /\ \A i \in DOMAIN doc : doc[i] = "1"
        THEN [ok |-> TRUE, value |-> [kind |-> "int", val |-> Ones(Len(doc))]]
        ELSE IF /\ Len(doc) >= 2
                /\ doc[1] = "QUOTE"
                /\ doc[Len(doc)] = "QUOTE"
                /\ \A i \in 2..(Len(doc) - 1) : doc[i] \notin {"QUOTE", "LF"}
        THEN [ok |-> TRUE,
              value |-> [kind |-> "str", val |-> SubSeq(doc, 2, Len(doc) - 1)]]
        ELSE [ok |-> FALSE]

\* the events of the complete lines of a text, in order
RECURSIVE LineEvents(_)
LineEvents(text) ==
    IF ~HasLine(text) THEN <<>>
    ELSE (IF /\ strip(split_line(text).line) # <<>>
             /\ json_loads(strip(split_line(text).line)).ok
          THEN <<json_loads(strip(split_line(text).line)).value>>
          ELSE <<>>)
         \o LineEvents(split_line(text).buffer)

\* the events of the well-formed frames among the given ones, in order
RECURSIVE FrameEvents(_)
FrameEvents(frames) ==
    IF frames = <<>> THEN <<>>
    ELSE (IF json_loads(Head(frames)).ok
          THEN <<json_loads(Head(frames)).value>> ELSE <<>>)
         \o FrameEvents(Tail(frames))

\* what the peer may send on a socket: lines that are a number, a string
\* with a two-byte character, not JSON, blank, padded, and an unfinished one
SocketLines ==
    {<<"1", "LF">>, <<"QUOTE", "C3", "A9", "QUOTE", "LF">>, <<"x", "LF">>,
     <<"SP", "LF">>, <<"1", "SP", "LF">>, <<"1">>}

\* WebSocket text frames
Frames == {<<"1">>, <<"QUOTE", "E9", "QUOTE">>, <<"x">>, <<"SP", "1", "LF">>}

MaxLines == 3
MaxFrames == 3
MaxRecv == 5
MaxMockEvents == 4
MaxStarts == 2
MockDuration == 3
ConnectPolls == 10

RECURSIVE Streams(_)
Streams(n) ==
    IF n = 0 THEN {<<>>}
    ELSE Streams(n - 1)
         \cup {stream \o line : stream \in Streams(n - 1), line \in SocketLines}

RECURSIVE FrameSeqs(_)
FrameSeqs(n) ==
    IF n = 0 THEN {<<>>}
    ELSE FrameSeqs(n - 1)
         \cup {Append(frames, frame) : frames \in FrameSeqs(n - 1),
                                       frame \in Frames}

\* IngestManager(config) for one of the three modes, start() not yet called
IngestInit ==
    /\ mode \in {"mock", "socket", "websocket"}
    /\ connected = FALSE
    /\ recv_buffer = <<>>
    /\ event_queue = <<>>
    /\ queue_lock = "free"
    /\ should_reconnect = TRUE
    /\ duration \in (IF mode = "mock" THEN {0, MockDuration} ELSE {0})
    /\ elapsed = 0
    /\ event_count = 0
    /\ collect_pc = "idle"
    /\ worker = [t \in 1..MaxWsThreads |-> [pc |-> "idle"]]
    /\ sent \in (IF mode = "socket" THEN Streams(MaxLines)
                 ELSE IF mode = "websocket" THEN FrameSeqs(MaxFrames)
                 ELSE {<<>>})
    /\ wire = sent
    /\ yielded = <<>>
    /\ fault = "none"
    /\ stopped = FALSE
    /\ starts = 0
    /\ after_stop = 0
    /\ ws_threads = 0
    /\ polls = 0

\* the iterator yields event
Yield(event) ==
    /\ yielded' = Append(yielded, event)
    /\ after_stop' = IF stopped THEN after_stop + 1 ELSE after_stop

\* IngestManager.start(): the collector is created on the first call and
\* kept afterwards; its collect() or generate() is called and the iterator
\* returned. A later call follows a stop(). start() does nothing to the
\* earlier iterator: a WebSocket iterator that is suspended at its yield
\* stays inside `with self.queue_lock`, and the lock stays held.
IngestStart ==
    /\ starts < MaxStarts
    /\ \/ collect_pc = "idle"
       \/ stopped /\ collect_pc \in {"yield", "done"}
    /\ collect_pc' = "start"
    /\ starts' = starts + 1
    /\ stopped' = FALSE
    /\ after_stop' = 0
    /\ queue_lock' = IF queue_lock = "consumer" THEN "earlier" ELSE queue_lock
    /\ UNCHANGED <<mode, connected, recv_buffer, event_queue,
                   should_reconnect, duration, elapsed, event_count, worker,
                   wire, sent, yielded, fault, wsvars, noting>>

\* the earlier WebSocket iterator leaves its `with self.queue_lock` block:
\* the caller drops or closes it (GeneratorExit at the yield), or resumes
\* it, and then `while self.should_reconnect` ends it, should_reconnect
\* being false since the stop()
WsEarlierRelease ==
    /\ mode = "websocket"
    /\ queue_lock = "earlier"
    /\ queue_lock' = "free"
    /\ UNCHANGED <<mode, connected, recv_buffer, event_queue,
                   should_reconnect, duration, elapsed, event_count,
                   collect_pc, worker, wire, sent, yielded, fault, stopped,
                   starts, after_stop, wsvars, noting>>

\* IngestManager.stop(), called by the consumer between two events:
\* collector.disconnect() where the collector has one
IngestStop ==
    /\ collect_pc = "yield"
    /\ ~stopped
    /\ stopped' = TRUE
    /\ connected' = (IF mode = "mock" THEN connected ELSE FALSE)
    /\ should_reconnect' = (IF mode = "websocket" THEN FALSE
                            ELSE should_reconnect)
    /\ UNCHANGED <<mode, recv_buffer, event_queue, queue_lock, duration,
                   elapsed, event_count, collect_pc, worker, wire, sent,
                   yielded, fault, starts, after_stop, wsvars, noting>>

\* MockStreamGenerator.generate, one next(): the sleep that follows the
\* previous event, the duration test and the next event
MockGenerate ==
    /\ mode = "mock"
    /\ collect_pc \in {"start", "yield"}
    /\ event_count < MaxMockEvents
    /\ \E slept \in 1..2, is_anomaly \in BOOLEAN :
          LET now == IF collect_pc = "start" THEN 0 ELSE elapsed + slept
          IN  /\ elapsed' = now
              /\ IF duration > 0 /\ now >= duration
                 THEN /\ collect_pc' = "done"
                      /\ UNCHANGED <<event_count, yielded, after_stop>>
                 ELSE /\ collect_pc' = "yield"
                      /\ event_count' = event_count + 1
                      /\ Yield([kind |-> "mock", is_anomaly |-> is_anomaly])
    /\ UNCHANGED <<mode, connected, recv_buffer, event_queue, queue_lock,
                   should_reconnect, duration, worker, wire, sent, fault,
                   stopped, starts, wsvars, noting>>

\* SocketStreamCollector.collect up to its loop: connect() unless connected
SocketStart ==
    /\ mode = "socket"
    /\ collect_pc = "start"
    /\ \E ok \in BOOLEAN :
          /\ connected' = (connected \/ ok)
          /\ collect_pc' = IF connected \/ ok THEN "recv" ELSE "done"
    /\ recv_buffer' = <<>>
    /\ UNCHANGED <<mode, event_queue, queue_lock, should_reconnect, duration,
                   elapsed, event_count, worker, wire, sent, yielded, fault,
                   stopped, starts, after_stop, wsvars, noting>>

\* `while self.connected` is false: the loop ends
SocketLoopExit ==
    /\ mode = "socket"
    /\ collect_pc = "recv"
    /\ ~connected
    /\ collect_pc' = "done"
    /\ UNCHANGED <<mode, connected, recv_buffer, event_queue, queue_lock,
                   should_reconnect, duration, elapsed, event_count, worker,
                   wire, sent, yielded, fault, stopped, starts, after_stop,
                   wsvars, noting>>

\* recv returns the next n bytes, which are decoded and added to the buffer
SocketRecv ==
    /\ mode = "socket"
    /\ collect_pc = "recv"
    /\ connected
    /\ \E n \in 1..MaxRecv :
          /\ n <= Len(wire)
          /\ wire' = SubSeq(wire, n + 1, Len(wire))
          /\ \E data \in {utf8_decode(SubSeq(wire, 1, n))} :
                IF Raises(data)
                THEN /\ fault' = "decode"
                     /\ collect_pc' = "done"
                     /\ UNCHANGED recv_buffer
                ELSE /\ fault' = "none"
                     /\ collect_pc' = "lines"
                     /\ recv_buffer' = recv_buffer \o data
    /\ UNCHANGED <<mode, connected, event_queue, queue_lock, should_reconnect,
                   duration, elapsed, event_count, worker, sent, yielded,
                   stopped, starts, after_stop, wsvars, noting>>

\* recv raises socket.timeout: continue
SocketTimeout ==
    /\ mode = "socket"
    /\ collect_pc = "recv"
    /\ connected
    /\ fault' = "timeout"
    /\ UNCHANGED <<mode, connected, recv_buffer, event_queue, queue_lock,
                   should_reconnect, duration, elapsed, event_count,
                   collect_pc, worker, wire, sent, yielded, stopped, starts,
                   after_stop, wsvars, noting>>

\* recv returns no data (the peer closed after its last byte) or raises
\* another error: break
SocketFailure ==
    /\ mode = "socket"
    /\ collect_pc = "recv"
    /\ connected
    /\ \E outcome \in {"closed", "error"} :
          /\ outcome = "closed" => wire = <<>>
          /\ fault' = outcome
    /\ collect_pc' = "done"
    /\ UNCHANGED <<mode, connected, recv_buffer, event_queue, queue_lock,
                   should_reconnect, duration, elapsed, event_count, worker,
                   wire, sent, yielded, stopped, starts, after_stop, wsvars, noting>>

\* one round of `while '\n' in buffer`: the next line is split off,
\* stripped, parsed and yielded if it is JSON; without a line, back to recv
SocketLine ==
    /\ mode = "socket"
    /\ collect_pc \in {"lines", "yield"}
    /\ IF HasLine(recv_buffer)
       THEN \E parts \in {split_line(recv_buffer)} :
               /\ recv_buffer' = parts.buffer
               /\ IF strip(parts.line) # <<>> /\ json_loads(strip(parts.line)).ok
                  THEN /\ Yield(json_loads(strip(parts.line)).value)
                       /\ collect_pc' = "yield"
                  ELSE /\ collect_pc' = "lines"
                       /\ UNCHANGED <<yielded, after_stop>>
       ELSE /\ collect_pc' = "recv"
            /\ UNCHANGED <<recv_buffer, yielded, after_stop>>
    /\ UNCHANGED <<mode, connected, event_queue, queue_lock, should_reconnect,
                   duration, elapsed, event_count, worker, wire, sent, fault,
                   stopped, starts, wsvars, noting>>

\* WebSocketStreamCollector.connect() up to its wait: a new WebSocketApp
\* is created and run on a thread of its own, next to the threads that
\* earlier calls have started
connect_begin ==
    /\ ws_threads < MaxWsThreads
    /\ ws_threads' = ws_threads + 1
    /\ polls' = 0

\* WebSocketStreamCollector.collect up to its loop: connect() is entered
\* unless connected
WsStart ==
    /\ mode = "websocket"
    /\ collect_pc = "start"
    /\ IF connected
       THEN /\ collect_pc' = "loop"
            /\ UNCHANGED wsvars
       ELSE /\ collect_pc' = "connect"
            /\ connect_begin
    /\ UNCHANGED <<mode, connected, recv_buffer, event_queue, queue_lock,
                   should_reconnect, duration, elapsed, event_count, worker,
                   wire, sent, yielded, fault, stopped, starts, after_stop,
                   noting>>

\* one round of the wait of connect(): `if self.connected: return True`,
\* else time.sleep(1); after ConnectPolls sleeps connect() returns False
\* without looking again. collect() ends when its first connect() returns
\* False and goes on to its loop in every other case.
WsPoll ==
    /\ mode = "websocket"
    /\ collect_pc \in {"connect", "reconnect"}
    /\ IF polls < ConnectPolls
       THEN IF connected
            THEN /\ collect_pc' = "loop"
                 /\ UNCHANGED polls
            ELSE /\ polls' = polls + 1
                 /\ UNCHANGED collect_pc
       ELSE /\ collect_pc' = IF collect_pc = "connect" THEN "done" ELSE "loop"
            /\ UNCHANGED polls
    /\ UNCHANGED <<mode, connected, recv_buffer, event_queue, queue_lock,
                   should_reconnect, duration, elapsed, event_count, worker,
                   wire, sent, yielded, fault, stopped, starts, after_stop,
                   ws_threads, noting>>

\* the head of the loop: `while self.should_reconnect`, then the lock is
\* taken and the first queued event popped and yielded, or the sleep begun
WsTake ==
    /\ mode = "websocket"
    /\ collect_pc = "loop"
    /\ IF ~should_reconnect
       THEN /\ collect_pc' = "done"
            /\ UNCHANGED <<event_queue, queue_lock, yielded, after_stop>>
       ELSE /\ queue_lock = "free"
            /\ queue_lock' = "consumer"
            /\ IF event_queue # <<>>
               THEN /\ event_queue' = Tail(event_queue)
                    /\ Yield(Head(event_queue))
                    /\ collect_pc' = "yield"
               ELSE /\ collect_pc' = "sleep"
                    /\ UNCHANGED <<event_queue, yielded, after_stop>>
    /\ UNCHANGED <<mode, connected, recv_buffer, should_reconnect, duration,
                   elapsed, event_count, worker, wire, sent, fault, stopped,
                   starts, wsvars, noting>>

\* the `with self.queue_lock` block is left, after the yield or the sleep
WsRelease ==
    /\ mode = "websocket"
    /\ collect_pc \in {"yield", "sleep"}
    /\ queue_lock' = "free"
    /\ collect_pc' = "check"
    /\ UNCHANGED <<mode, connected, recv_buffer, event_queue,
                   should_reconnect, duration, elapsed, event_count, worker,
                   wire, sent, yielded, fault, stopped, starts, after_stop,
                   wsvars, noting>>

\* the end of the loop body: `if not self.connected and
\* self.should_reconnect`, and time.sleep(reconnect_interval) begun
WsCheck ==
    /\ mode = "websocket"
    /\ collect_pc = "check"
    /\ collect_pc' = IF ~connected /\ should_reconnect THEN "backoff"
                     ELSE "loop"
    /\ UNCHANGED <<mode, connected, recv_buffer, event_queue, queue_lock,
                   should_reconnect, duration, elapsed, event_count, worker,
                   wire, sent, yielded, fault, stopped, starts, after_stop,
                   wsvars, noting>>

\* the sleep is over and connect() is called, whatever the handlers did to
\* self.connected in the meantime; its result is not looked at
WsReconnect ==
    /\ mode = "websocket"
    /\ collect_pc = "backoff"
    /\ collect_pc' = "reconnect"
    /\ connect_begin
    /\ UNCHANGED <<mode, connected, recv_buffer, event_queue, queue_lock,
                   should_reconnect, duration, elapsed, event_count, worker,
                   wire, sent, yielded, fault, stopped, starts, after_stop,
                   noting>>

\* _on_open on a WebSocketApp thread. The handlers are called by the
\* threads that connect() has started, during its wait, during the sleeps
\* of collect() and afterwards; each thread calls one handler at a time,
\* and when it does is the peer's and the library's choice.
WsOpen ==
    /\ mode = "websocket"
    /\ \E t \in 1..ws_threads : worker[t].pc = "idle"
    /\ ~connected
    /\ connected' = TRUE
    /\ fault' = "none"
    /\ UNCHANGED <<mode, recv_buffer, event_queue, queue_lock,
                   should_reconnect, duration, elapsed, event_count,
                   collect_pc, worker, wire, sent, yielded, stopped, starts,
                   after_stop, wsvars, noting>>

\* _on_message on a WebSocketApp thread, up to the lock: the next frame
\* of the peer arrives on the connection of that thread, is parsed and,
\* if it is not JSON, dropped
WsMessage ==
    /\ mode = "websocket"
    /\ wire # <<>>
    /\ \E t \in 1..ws_threads :
          /\ worker[t].pc = "idle"
          /\ worker' = IF json_loads(Head(wire)).ok
                       THEN [worker EXCEPT
                                ![t] = [pc |-> "lock",
                                        event |-> json_loads(Head(wire)).value]]
                       ELSE worker
    /\ wire' = Tail(wire)
    /\ UNCHANGED <<mode, connected, recv_buffer, event_queue, queue_lock,
                   should_reconnect, duration, elapsed, event_count,
                   collect_pc, sent, yielded, fault, stopped, starts,
                   after_stop, wsvars, noting>>

\* _on_message enters `with self.queue_lock`
WsLock ==
    /\ mode = "websocket"
    /\ queue_lock = "free"
    /\ \E t \in 1..ws_threads :
          /\ worker[t].pc = "lock"
          /\ worker' = [worker EXCEPT ![t].pc = "append"]
    /\ queue_lock' = "worker"
    /\ UNCHANGED <<mode, connected, recv_buffer, event_queue,
                   should_reconnect, duration, elapsed, event_count,
                   collect_pc, wire, sent, yielded, fault, stopped, starts,
                   after_stop, wsvars, noting>>

\* _on_message appends the event and leaves the block
WsAppend ==
    /\ mode = "websocket"
    /\ \E t \in 1..ws_threads :
          /\ worker[t].pc = "append"
          /\ event_queue' = Append(event_queue, worker[t].event)
          /\ worker' = [worker EXCEPT ![t] = [pc |-> "idle"]]
    /\ queue_lock' = "free"
    /\ UNCHANGED <<mode, connected, recv_buffer, should_reconnect, duration,
                   elapsed, event_count, collect_pc, wire, sent, yielded,
                   fault, stopped, starts, after_stop, wsvars, noting>>

\* _on_error and _on_close on a WebSocketApp thread
WsFailure ==
    /\ mode = "websocket"
    /\ \E t \in 1..ws_threads : worker[t].pc = "idle"
    /\ connected' = FALSE
    /\ \E outcome \in {"closed", "error"} : fault' = outcome
    /\ UNCHANGED <<mode, recv_buffer, event_queue, queue_lock,
                   should_reconnect, duration, elapsed, event_count,
                   collect_pc, worker, wire, sent, yielded, stopped, starts,
                   after_stop, wsvars, noting>>

IngestNext ==
    \/ IngestStart \/ IngestStop \/ MockGenerate
    \/ SocketStart \/ SocketLoopExit \/ SocketRecv \/ SocketTimeout
    \/ SocketFailure \/ SocketLine
    \/ WsStart \/ WsPoll \/ WsTake \/ WsRelease \/ WsCheck \/ WsReconnect
    \/ WsOpen \/ WsMessage \/ WsLock \/ WsAppend \/ WsFailure
    \/ WsEarlierRelease

SpecIngestInit ==
    IngestInit /\ ZIdleInit /\ AMDefaultInit /\ WMDefaultInit /\ AppInit
    /\ CPIdleInit /\ CDInit /\ ZDIdleInit
    /\ ClockIdleInit /\ NamedIdleInit

SpecIngest == SpecIngestInit /\ [][IngestNext]_vars

-----------------------------------------------------------------------------
(* Claims *)

(* C1: after any sequence of ZScoreDetector.predict calls on any values the *)
(* detector's history never holds more than window_size values.            *)
C1_HistoryBounded == Len(history) <= window_size

(* C2: in create_alert, when the computed fingerprint equals one held in    *)
(* the fingerprint ring (the fingerprints of the last 100 emitted alerts),  *)
(* no alert is emitted and both rings are left unchanged; hence the newest  *)
(* emitted alert never has the fingerprint of one of the 100 alerts emitted *)
(* before it, so two alerts with the same fingerprint are separated by at   *)
(* least 100 other emitted alerts.  (Under SpecDedup the alert ring holds   *)
(* every alert emitted so far, and every prefix of it was the ring of an    *)
(* earlier state.)                                                          *)
C2_DuplicateSuppressed ==
    [][ /\ ( /\ am_call'.op = "create_alert"
             /\ \E i \in 1..Len(recent_alert_hashes) :
                    recent_alert_hashes[i] =
                        HashOf(am_call'.detection_result, am_call'.event) )
           => ( /\ am_ret' = NoAlert
                /\ alerts' = alerts
                /\ recent_alert_hashes' = recent_alert_hashes )
        /\ \A i \in 1..(Len(alerts') - 1) :
             (Len(alerts') - i <= 100)
               => _generate_alert_hash(alerts'[i].message, alerts'[i].details)
                    # _generate_alert_hash(alerts'[Len(alerts')].message,
                                           alerts'[Len(alerts')].details)
      ]_vars

\* the recurring alert was emitted, suppressed while its fingerprint was in
\* the ring, emitted again once 100 other alerts had pushed it out, and is
\* being suppressed again
C2_Witness ==
    /\ am_call.op = "create_alert"
    /\ am_call.event = RecurringEvent
    /\ am_ret = NoAlert
    /\ \E i, j \in 1..Len(alerts) :
         /\ j - i > 100
         /\ alerts[i].message = alerts[j].message
         /\ alerts[i].details = alerts[j].details

(* C3: for any detection_result and any event whose status_code is numeric *)
(* and >= 400, create_alert emits an alert unless its fingerprint is in    *)
(* the fingerprint ring; the alert carries is_anomaly = true and score 1.0 *)
(* when status_code >= 500, otherwise 0.8.                                 *)
C3_HttpErrorShortCircuit ==
    [][ ( /\ am_calls' = am_calls + 1
          /\ am_call'.op = "create_alert"
          /\ am_call'.event.present
          /\ am_call'.event.status_code.kind = "int"
          /\ am_call'.event.status_code.val >= 400 )
        => IF \E i \in 1..Len(recent_alert_hashes) :
                 recent_alert_hashes[i] =
                     HashOf(am_call'.detection_result, am_call'.event)
           THEN am_ret' = NoAlert
           ELSE /\ am_ret'.present
                /\ am_ret'.details.is_anomaly = TRUE
                /\ am_ret'.details.anomaly_score =
                     (IF am_call'.event.status_code.val >= 500 THEN 1000 ELSE 800)
                /\ alerts' = Append(alerts, am_ret')
                /\ Len(recent_alert_hashes') = Len(recent_alert_hashes) + 1
      ]_vars

\* a 4xx event whose detection result is not anomalous (score 0) was alerted
C3_Witness ==
    /\ am_call.op = "create_alert"
    /\ am_call.detection_result.is_anomaly = FALSE
    /\ am_call.detection_result.anomaly_score = 0
    /\ am_call.event.present
    /\ am_call.event.status_code = IntStatus(499)
    /\ am_ret.present
    /\ am_ret.details.anomaly_score = 800
    /\ alerts # <<>>
    /\ alerts[Len(alerts)] = am_ret

(* C4: when the event is absent or has no numeric status_code >= 400,      *)
(* create_alert emits an alert only if detection_result.is_anomaly is true *)
(* and anomaly_score >= alert_threshold; otherwise it returns None and     *)
(* changes neither the alert ring nor the fingerprint ring.                *)
C4_ThresholdGate ==
    [][ ( /\ am_calls' = am_calls + 1
          /\ am_call'.op = "create_alert"
          /\ ~( /\ am_call'.event.present
                /\ am_call'.event.status_code.kind = "int"
                /\ am_call'.event.status_code.val >= 400 ) )
        => /\ am_ret'.present
                => ( /\ am_call'.detection_result.is_anomaly
                     /\ am_call'.detection_result.anomaly_score >= alert_threshold )
           /\ ~( /\ am_call'.detection_result.is_anomaly
                 /\ am_call'.detection_result.anomaly_score >= alert_threshold )
                => ( /\ am_ret' = NoAlert
                     /\ alerts' = alerts
                     /\ recent_alert_hashes' = recent_alert_hashes )
      ]_vars

\* a non-anomalous result with a high score on a non-error event was dropped
\* after an earlier alert had been stored
C4_Witness ==
    /\ am_call.op = "create_alert"
    /\ am_call.event.present
    /\ am_call.event.status_code = StrStatus
    /\ am_call.detection_result.is_anomaly = FALSE
    /\ am_call.detection_result.anomaly_score = 900
    /\ am_ret = NoAlert
    /\ Len(alerts) = 1

(* C5: every emitted alert's level is a function of its stored score and   *)
(* is_anomaly flag: critical if score >= 0.9, warning if 0.7 <= score <    *)
(* 0.9, info if score < 0.7 or is_anomaly is false; so a 5xx event yields  *)
(* a critical alert and a 4xx event a warning alert.                       *)
C5_LevelFromScore ==
    \A i \in 1..Len(alerts) :
        LET a == alerts[i] IN
        /\ a.details.anomaly_score >= 900 => a.level = "critical"
        /\ (a.details.anomaly_score >= 700 /\ a.details.anomaly_score < 900)
             => a.level = "warning"
        /\ (a.details.anomaly_score < 700 \/ ~a.details.is_anomaly)
             => a.level = "info"
        /\ a.message.kind = "http_error"
             => a.level = (IF a.message.status_code.val >= 500
                           THEN "critical" ELSE "warning")

\* an info, a warning (4xx) and a critical (5xx) alert are stored together
C5_Witness ==
    /\ Len(alerts) = 3
    /\ alerts[1].level = "info" /\ alerts[1].details.anomaly_score = 699
    /\ alerts[2].level = "warning" /\ alerts[2].message.kind = "http_error"
    /\ alerts[3].level = "critical" /\ alerts[3].message.kind = "http_error"

(* C6: with the dashboard's configuration, after N add_event calls with   *)
(* no clear in between the main ring holds exactly min(N, 1000) events,    *)
(* the oldest being evicted when the ring is full.                         *)
C6_MainRingSize1000 ==
    Len(wm_data_buffer) = (IF wm_adds < 1000 THEN wm_adds ELSE 1000)

(* C7: after any sequence of add_event calls, get_recent_events(k) returns *)
(* exactly the last min(k, size) events of the main ring, oldest first,    *)
(* for every k >= 0 (k = 0 returns an empty list); with k omitted it       *)
(* returns the whole ring in arrival order.                                *)
C7_RecentEvents ==
    wm_call.op = "get_recent_events" =>
        IF wm_call.count = NoCount
        THEN wm_ret = wm_data_buffer
        ELSE LET size == Len(wm_data_buffer)
                 m == IF wm_call.count < size THEN wm_call.count ELSE size
             IN  /\ Len(wm_ret) = m
                 /\ \A i \in 1..m : wm_ret[i] = wm_data_buffer[size - m + i]

(* C8: after any sequence of create_alert, acknowledge_alert and           *)
(* clear_alerts calls the alert ring holds at most max_alerts alerts, the  *)
(* oldest being dropped first when an alert is emitted into a full ring,   *)
(* and the fingerprint ring holds at most 100 entries.                     *)
C8_RingsBounded ==
    [][ /\ Len(alerts') <= max_alerts'
        /\ Len(recent_alert_hashes') <= 100
        /\ ( /\ am_call'.op = "create_alert"
             /\ am_ret'.present
             /\ Len(alerts) = max_alerts )
           => alerts' = Append(Tail(alerts), am_ret')
      ]_vars

\* an alert was emitted into a full alert ring, with the fingerprint ring
\* full and its oldest fingerprint already dropped
C8_Witness ==
    /\ am_call.op = "create_alert"
    /\ am_ret.present
    /\ Len(alerts) = max_alerts
    /\ alerts[1].acknowledged
    /\ Len(recent_alert_hashes) = 100
    /\ sweep > 101

(* C9: the reset action empties every event buffer (dashboard data buffer *)
(* and Window Manager), every alert buffer (dashboard anomaly buffer and   *)
(* the Alert Manager's alerts) and returns detector training state to      *)
(* untrained (no stored training samples, isolation forest unfitted,       *)
(* detector histories empty).                                              *)
C9_ResetClearsAll ==
    app_action = "reset" =>
        /\ ss_data_buffer = <<>>
        /\ wm_data_buffer = <<>>
        /\ anomaly_buffer = <<>>
        /\ alerts = <<>>
        /\ training_data = <<>>
        /\ ~is_fitted
        /\ history = <<>>

(* C10: the pipeline control is a two-state machine (stopped, running):    *)
(* start is taken only when stopped and moves to running; stop is taken    *)
(* only when running and moves to stopped; reset is taken only when        *)
(* stopped and leaves it stopped, so no reset executes while is_running is *)
(* true.                                                                   *)
C10_ControlStateMachine ==
    [][ /\ is_running' \in BOOLEAN
        /\ app_action' = "start" => (~is_running /\ is_running')
        /\ app_action' = "stop" => (is_running /\ ~is_running')
        /\ app_action' = "reset" => (~is_running /\ ~is_running')
      ]_vars

\* the pipeline ran, was stopped, and a reset was then taken while stopped
C10_Witness ==
    /\ app_action = "reset"
    /\ ~is_running
    /\ training_data # <<>>
    /\ ss_data_buffer = <<>>

(* C11: the start and stop actions leave the data buffer, the anomaly      *)
(* buffer, the Window Manager, the Alert Manager and the detector state    *)
(* unchanged; they modify only is_running (and, on start, last_poll_time   *)
(* and poll_counter), so buffered data survives stop/start cycles.         *)
C11_StartStopFrame ==
    [][ /\ (app_action' \in {"start", "stop"})
           => /\ ss_data_buffer' = ss_data_buffer
              /\ anomaly_buffer' = anomaly_buffer
              /\ wmvars' = wmvars
              /\ amvars' = amvars
              /\ zvars' = zvars
              /\ dmvars' = dmvars
        /\ (app_action' = "stop")
           => /\ last_poll_time' = last_poll_time
              /\ poll_counter' = poll_counter
      ]_vars

\* the stream was restarted after a stop with the polled data still buffered
C11_Witness ==
    /\ app_action = "start"
    /\ is_running
    /\ Len(ss_data_buffer) >= 2
    /\ Len(anomaly_buffer) >= 2
    /\ Len(wm_data_buffer) >= 2
    /\ Len(training_data) >= 2
    /\ alerts # <<>>

(* C12: alerts are stored in the order create_alert emitted them, and      *)
(* get_recent_alerts(count, level) returns the last min(count, n) alerts   *)
(* of the requested level (of all levels when level is omitted), n being   *)
(* their number, in that same order, for every count >= 0.                 *)
C12_RecentAlerts ==
    am_call.op = "get_recent_alerts" =>
        LET matching == IF am_call.level = "" THEN alerts
                        ELSE SelectSeq(alerts, LAMBDA a : a.level = am_call.level)
            n == Len(matching)
            m == IF am_call.count < n THEN am_call.count ELSE n
        IN  /\ Len(am_list) = m
            /\ \A i \in 1..m : am_list[i] = matching[n - m + i]

(* C13: in hybrid mode DetectorManager.detect always runs Z-Score, the     *)
(* forest is asked exactly when it is fitted, and on every call that       *)
(* returns is_anomaly is the Z-Score verdict OR (fitted AND the forest's   *)
(* verdict), anomaly_score is the maximum of the participating detectors'  *)
(* scores, and details holds an isolation_forest entry exactly when the    *)
(* forest is fitted.                                                       *)
C13_HybridFusion ==
    [][(dm_call'.op = "detect" /\ dm_method = "hybrid") =>
        LET z == zscore_detect(history, dm_call'.features, feature_names,
                               window_size)
            ir == dm_call'.iforest
        IN  /\ history' = z.history
            /\ ir.present <=> is_fitted'
            /\ "raised" \notin DOMAIN dm_ret' =>
                  /\ dm_ret'.details.zscore = z.result
                  /\ dm_ret'.is_anomaly
                         = (z.result.is_anomaly \/ (is_fitted' /\ ir.is_anomaly))
                  /\ dm_ret'.anomaly_score
                         = IF is_fitted'
                           THEN IF ScoreLess(z.result.anomaly_score,
                                             ir.anomaly_score)
                                THEN ir.anomaly_score
                                ELSE z.result.anomaly_score
                           ELSE z.result.anomaly_score
                  /\ dm_ret'.details.isolation_forest.present <=> is_fitted'
                  /\ is_fitted' => dm_ret'.details.isolation_forest = ir]_vars

\* a hybrid call on a fitted forest that saw nothing while Z-Score did
C13_Witness ==
    /\ dm_call.op = "detect"
    /\ "raised" \notin DOMAIN dm_ret
    /\ dm_method = "hybrid"
    /\ is_fitted
    /\ dm_ret.details.zscore.is_anomaly
    /\ ~dm_ret.details.isolation_forest.is_anomaly
    /\ dm_ret.is_anomaly
    /\ dm_ret.anomaly_score = dm_ret.details.zscore.anomaly_score

(* C14: in isolation_forest-only mode while the forest is unfitted,       *)
(* detect does not raise and returns is_anomaly = false and anomaly_score  *)
(* 0.0 with no detector entry (zscore, isolation_forest) in details, and   *)
(* still records the feature vector as training data.                      *)
C14_UnfittedNoEntry ==
    [][(dm_call'.op = "detect" /\ dm_method = "isolation_forest" /\ ~is_fitted')
        => /\ training_data' = Append(training_data, dm_call'.features)
           /\ "raised" \notin DOMAIN dm_ret'
           /\ dm_ret'.is_anomaly = FALSE
           /\ dm_ret'.anomaly_score = Thousandths(0)
           /\ ~dm_ret'.details.zscore.present
           /\ ~dm_ret'.details.isolation_forest.present]_vars

(* C15, as stated: the forest's fit is invoked exactly once, on the call   *)
(* where the stored samples first reach min_training_samples, never before *)
(* and never again, also when that attempt fails.                          *)
C15_FitExactlyOnce ==
    fit_calls = IF Len(training_data) >= MinTrainingSamples THEN 1 ELSE 0

(* C15, amended: fit is never invoked before the stored samples reach      *)
(* min_training_samples; from the call on which they reach it, fit is      *)
(* invoked on every call for as long as the forest is unfitted, and never  *)
(* again once the forest is fitted.                                        *)
C15_FitUntilFitted ==
    /\ [](/\ Len(training_data) < MinTrainingSamples
              => fit_calls = 0 /\ ~is_fitted
          /\ (Len(training_data) >= MinTrainingSamples /\ ~is_fitted)
              => fit_calls = Len(training_data) - MinTrainingSamples + 1
          /\ (Len(training_data) >= MinTrainingSamples /\ is_fitted)
              => /\ fit_calls >= 1
                 /\ fit_calls <= Len(training_data) - MinTrainingSamples + 1)
    /\ [][is_fitted => (fit_calls' = fit_calls /\ is_fitted')]_vars

\* the first attempt failed, the second left the forest fitted, and a later
\* call did not fit again
C15_Witness ==
    /\ Len(training_data) > MinTrainingSamples + 1
    /\ is_fitted
    /\ fit_calls = 2

(* C16: detect returns the same top-level is_anomaly and anomaly_score,    *)
(* and leaves the manager in the same state, whether change-point          *)
(* detection is enabled or disabled: a call returns with the one setting   *)
(* exactly when it returns with the other; the change-point result is      *)
(* attached under details.changepoint only when change-point detection is  *)
(* enabled and at least 100 training samples are stored.                   *)
C16_ChangepointOverlay ==
    [][dm_call'.op = "detect" =>
        LET other == dm_detect(
                         DMState,
                         [DMConfig EXCEPT !.cp_enabled = ~cp_enabled],
                         dm_call'.features, is_fitted',
                         IF dm_call'.iforest.present THEN dm_call'.iforest
                         ELSE IForestBaseline)
        IN  /\ training_data' = other.training_data
            /\ is_fitted' = other.is_fitted
            /\ history' = other.history
            /\ "raised" \notin DOMAIN dm_ret'
            /\ "raised" \notin DOMAIN other.ret
            /\ dm_ret'.is_anomaly = other.ret.is_anomaly
            /\ dm_ret'.anomaly_score = other.ret.anomaly_score
            /\ dm_ret'.details.zscore = other.ret.details.zscore
            /\ dm_ret'.details.isolation_forest
                   = other.ret.details.isolation_forest
            /\ dm_ret'.details.changepoint.present
                   => /\ cp_enabled
                      /\ Len(training_data') >= ChangepointMinSamples
            /\ ~(dm_ret'.details.changepoint.present
                 /\ other.ret.details.changepoint.present)]_vars

(* C18: ComprehensiveAnomalyDetector.detect returns is_anomaly = true iff  *)
(* at least one rule fired; the reported anomaly (score, type, severity,   *)
(* details) is the highest-scoring rule among the critical ones if any     *)
(* fired rule is critical, otherwise the highest-scoring fired rule;       *)
(* anomaly_count is the number of fired rules and all_anomalies lists them *)
(* all; if no rule fired the result is is_anomaly = false with severity    *)
(* info.                                                                   *)
C18_Aggregation ==
    [][(cd_call'.op = "detect" /\ "raised" \notin DOMAIN cd_ret') =>
        \E fired \in {CollectAnomalies(CDState, cd_call'.event,
                                       cd_call'.recent_events).all_anomalies} :
        LET critical == {i \in DOMAIN fired : fired[i].severity = "critical"}
            among == IF critical # {} THEN critical ELSE DOMAIN fired
        IN  /\ cd_ret'.is_anomaly <=> fired # <<>>
            /\ fired = <<>> => cd_ret'.severity = "info"
            /\ fired # <<>> =>
                  /\ cd_ret'.anomaly_count = Len(fired)
                  /\ cd_ret'.all_anomalies = fired
                  /\ \E i \in among :
                        /\ cd_ret'.details = fired[i]
                        /\ cd_ret'.anomaly_score = fired[i].anomaly_score
                        /\ cd_ret'.score_double = fired[i].score_double
                        /\ cd_ret'.anomaly_type = fired[i].anomaly_type
                        /\ cd_ret'.severity = fired[i].severity
                        /\ \A j \in among :
                               /\ ~FracLess(fired[i].anomaly_score,
                                            fired[j].anomaly_score)
                               /\ ~DoubleLess(fired[i].score_double,
                                              fired[j].score_double)
                               /\ j < i => DoubleLess(fired[j].score_double,
                                                      fired[i].score_double)]_vars

\* a critical rule was reported although a warning rule scored higher
C18_Witness ==
    /\ cd_call.op = "detect"
    /\ "raised" \notin DOMAIN cd_ret
    /\ cd_ret.is_anomaly
    /\ cd_ret.severity = "critical"
    /\ cd_ret.anomaly_count >= 3
    /\ \E i \in DOMAIN cd_ret.all_anomalies :
          /\ cd_ret.all_anomalies[i].severity = "warning"
          /\ FracLess(cd_ret.anomaly_score,
                      cd_ret.all_anomalies[i].anomaly_score)

(* C19, for ComprehensiveAnomalyDetector.detect: for any event in which    *)
(* response_time, cpu_usage, memory_usage or status_code is present but    *)
(* not a number, detect completes without raising, skips that field and    *)
(* leaves the history ring of that field unchanged.                        *)
C19_NonNumericSkipped ==
    [][cd_call'.op = "detect" =>
        LET event == cd_call'.event
            malformed(field) == field.kind \in {"str", "null"}
        IN  /\ ( \/ malformed(event.response_time)
                 \/ malformed(event.cpu_usage)
                 \/ malformed(event.memory_usage)
                 \/ malformed(event.status_code) )
                 => "raised" \notin DOMAIN cd_ret'
            /\ malformed(event.response_time)
                 => response_time_history' = response_time_history
            /\ malformed(event.cpu_usage) => cpu_history' = cpu_history
            /\ malformed(event.memory_usage)
                 => memory_history' = memory_history]_vars

(* C20: get_time_window(seconds) returns a contiguous suffix of the main  *)
(* ring in arrival order, every event of which has a timestamp within      *)
(* [anchor - seconds, anchor], anchor being the timestamp of the           *)
(* last-appended event; the backward scan stops at the first event older   *)
(* than the cutoff even when earlier events would be in range; an empty    *)
(* ring returns an empty list.                                             *)
C20_TimeWindow ==
    wm_call.op = "get_time_window" =>
        LET size == Len(wm_data_buffer)
            taken == Len(wm_ret)
            seconds == wm_call.seconds
        IN  IF wm_data_buffer = <<>> THEN wm_ret = <<>>
            ELSE LET anchor == wm_data_buffer[size].timestamp
                 IN  /\ taken <= size
                     /\ wm_ret = SubSeq(wm_data_buffer, size - taken + 1, size)
                     /\ \A i \in 1..taken :
                            /\ wm_ret[i].timestamp >= anchor - seconds
                            /\ wm_ret[i].timestamp <= anchor
                     /\ taken < size =>
                            wm_data_buffer[size - taken].timestamp
                                < anchor - seconds

(* C21: Z-Score history is kept per feature: running detect over the      *)
(* features cpu_usage and response_time yields for cpu_usage, call by      *)
(* call, the same flag and z-score as a detector fed the cpu_usage values  *)
(* alone.                                                                  *)
C21_PerFeatureHistory ==
    zd_call.op = "detect" =>
        /\ zd_ret.details[1].feature = "cpu_usage"
        /\ zd_ret.details[1].is_anomaly = solo_ret.is_anomaly
        /\ zd_ret.details[1].z.num * solo_ret.z.den
              = solo_ret.z.num * zd_ret.details[1].z.den

(* C26: the number of feature vectors the DetectorManager retains for     *)
(* training stays bounded by a fixed capacity for any number of detect     *)
(* calls; the capacity tried is the largest number of vectors detect ever  *)
(* reads back, the ChangepointTrail most recent ones.                      *)
C26_TrainingBounded == Len(training_data) <= ChangepointTrail

(* C27: after each event with a positive response_time, a                 *)
(* response_time_spike anomaly appears in all_anomalies iff the            *)
(* response-time ring holds more than 10 samples and the mean of its last  *)
(* 10 samples exceeds twice the (positive) mean of the earlier samples,    *)
(* and its increase_ratio is then greater than 2; 20 events at 100 ms      *)
(* followed by 10 events at 1000 ms end with such a detection.             *)
C27_ResponseTimeSpike ==
    /\ ( /\ cd_call.op \in {"detect", "replay"}
         /\ IsNumber(cd_call.event.response_time)
         /\ cd_call.event.response_time.val > 0 ) =>
            LET size == Len(response_time_history)
                recent == SumSeq(SliceFromMinus(response_time_history, 10))
                earlier == SumSeq(AllButLast(response_time_history, 10))
                spikes == FiredOfType(cd_ret, "response_time_spike")
            IN  /\ spikes # <<>> <=>
                       /\ size > 10
                       /\ earlier > 0
                       /\ recent * (size - 10) > 2 * earlier * 10
                /\ Len(spikes) <= 1
                /\ \A i \in DOMAIN spikes :
                       /\ spikes[i].increase_ratio.num * 10 * earlier
                              = recent * (size - 10) * spikes[i].increase_ratio.den
                       /\ FracLess(Frac(2, 1), spikes[i].increase_ratio)
    /\ response_time_history
           = [i \in 1..30 |-> IF i <= 20 THEN 100 ELSE 1000]
         => FiredOfType(cd_ret, "response_time_spike") # <<>>

\* the 30th event of the scenario: the last ten samples average 1000 ms,
\* the twenty before them 100 ms
C27_Witness ==
    /\ cd_call.op = "replay"
    /\ response_time_history
           = [i \in 1..30 |-> IF i <= 20 THEN 100 ELSE 1000]
    /\ \E i \in DOMAIN FiredRules(cd_ret) :
          /\ FiredRules(cd_ret)[i].anomaly_type = "response_time_spike"
          /\ FiredRules(cd_ret)[i].increase_ratio = Frac(10, 1)

(* C28, as stated: for an IP with at least 10 tracked requests,           *)
(* rapid_request_pattern (warning, score min(1.0, rps/10)) fires on an     *)
(* event iff the timestamps of that IP's last 10 requests span t seconds   *)
(* with 0 < t < 10 and 10/t > 5, and an unparseable timestamp among them   *)
(* suppresses the rule.                                                    *)
C28_RapidRequestsAnyTimestamp ==
    cd_call.op \in {"detect", "replay"} =>
        LET requests == ip_requests[cd_call.event.ip].requests
            last10 == SliceFromMinus(requests, 10)
            rapid == FiredOfType(cd_ret, "rapid_request_pattern")
        IN  Len(requests) >= 10 =>
               IF \E i \in DOMAIN last10 : last10[i].timestamp = NoTimestamp
               THEN rapid = <<>>
               ELSE rapid # <<>> <=>
                       /\ last10[10].timestamp - last10[1].timestamp > 0
                       /\ last10[10].timestamp - last10[1].timestamp < 10 * 1000
                       /\ 10 * 1000 > 5 * (last10[10].timestamp
                                              - last10[1].timestamp)

(* C28, amended: for an IP with at least 10 tracked requests,              *)
(* rapid_request_pattern (warning, score min(1.0, rps/10)) fires on an     *)
(* event iff the timestamps of the first and the last of that IP's last   *)
(* 10 requests both parse and lie t seconds apart with 0 < t < 10 and      *)
(* 10/t > 5; an unparseable timestamp elsewhere among the ten has no       *)
(* effect; and the event's timestamp changes no other rule: the other      *)
(* rules fire as they do for the same event with a timestamp that parses.  *)
C28_RapidRequests ==
    [][cd_call'.op \in {"detect", "replay"} =>
        LET requests == ip_requests'[cd_call'.event.ip].requests
            last10 == SliceFromMinus(requests, 10)
            span == last10[10].timestamp - last10[1].timestamp
            rapid == FiredOfType(cd_ret', "rapid_request_pattern")
            others(ret) == SelectSeq(FiredRules(ret),
                               LAMBDA a : a.anomaly_type # "rapid_request_pattern")
            stamped == comprehensive_detect(
                           CDState, [cd_call'.event EXCEPT !.timestamp = 0],
                           cd_call'.recent_events).ret
        IN  /\ Len(requests) >= 10 =>
                 /\ rapid # <<>> <=>
                        /\ last10[1].timestamp # NoTimestamp
                        /\ last10[10].timestamp # NoTimestamp
                        /\ span > 0
                        /\ span < 10 * 1000
                        /\ 10 * 1000 > 5 * span
                 /\ \A i \in DOMAIN rapid :
                        /\ rapid[i].severity = "warning"
                        /\ rapid[i].anomaly_score
                               = (IF span <= 1000 THEN One ELSE Frac(1000, span))
            /\ cd_call'.op = "detect" => others(cd_ret') = others(stamped)]_vars

\* the eleventh request of one address within a second of the first
C28_Witness ==
    /\ cd_call.op \in {"detect", "replay"}
    /\ ip_requests[cd_call.event.ip].count = 11
    /\ LET requests == ip_requests[cd_call.event.ip].requests
       IN  /\ \A i \in DOMAIN requests : requests[i].timestamp # NoTimestamp
           /\ requests[11].timestamp - requests[1].timestamp > 0
           /\ requests[11].timestamp - requests[1].timestamp < 1000
    /\ FiredOfType(cd_ret, "rapid_request_pattern") # <<>>

(* C29: the request count of an IP grows by exactly one with every event   *)
(* from that IP and by nothing else, and is never reset or evicted; once   *)
(* the count is above 50, every event from the IP yields                   *)
(* suspicious_ip_activity with score min(1.0, count/100), and detect       *)
(* reports is_anomaly = true.                                              *)
C29_IpCount ==
    [][/\ \A ip \in CDIps :
            ip_requests'[ip].count
                = ip_requests[ip].count
                  + (IF cd_call'.event.ip = ip THEN cd_calls' - cd_calls ELSE 0)
       /\ cd_call'.event.ip \in CDIps =>
            LET count == ip_requests'[cd_call'.event.ip].count
                suspicious == FiredOfType(cd_ret', "suspicious_ip_activity")
            IN  /\ suspicious # <<>> <=> count > 50
                /\ count > 50 =>
                       /\ Len(suspicious) = 1
                       /\ suspicious[1].severity = "warning"
                       /\ suspicious[1].anomaly_score
                              = (IF count >= 100 THEN One ELSE Frac(count, 100))
                       /\ cd_ret'.is_anomaly]_vars

\* an address past its hundredth request
C29_Witness ==
    /\ cd_call.op = "detect"
    /\ cd_call.event.ip \in CDIps
    /\ ip_requests[cd_call.event.ip].count > 100
    /\ FiredOfType(cd_ret, "suspicious_ip_activity")
           = <<Anomaly("suspicious_ip_activity", "warning", One)>>
    /\ cd_ret.is_anomaly

(* C30: whenever, after an event's cpu_usage was recorded, the mean of the *)
(* last 3 recorded cpu_usage samples is at least 95, cpu_saturated         *)
(* (critical, score 1.0) is reported; whenever, after an event's           *)
(* memory_usage was recorded, the mean of the last 5 recorded memory_usage *)
(* samples is at least 95, oom_imminent (critical, score 1.0) is reported. *)
C30_Saturation ==
    cd_call.op \in {"detect", "replay"} =>
        /\ (/\ IsNumber(cd_call.event.cpu_usage)
            /\ Len(cpu_history) >= 3
            /\ ~FracLess(Mean(SliceFromMinus(cpu_history, 3)), Frac(95, 1)))
           => FiredOfType(cd_ret, "cpu_saturated")
                 = <<Anomaly("cpu_saturated", "critical", One)>>
        /\ (/\ IsNumber(cd_call.event.memory_usage)
            /\ Len(memory_history) >= 5
            /\ ~FracLess(Mean(SliceFromMinus(memory_history, 5)), Frac(95, 1)))
           => FiredOfType(cd_ret, "oom_imminent")
                 = <<Anomaly("oom_imminent", "critical", One)>>

(* C22: SocketStreamCollector.collect yields exactly one event per         *)
(* complete newline-terminated line that parses as JSON, in stream order,  *)
(* however the UTF-8 byte stream is split across recv calls: no split      *)
(* makes the decoding fail, the events yielded are always the first events *)
(* of the stream's lines, and once every byte has arrived and every line   *)
(* was handled they are all of them; blank and unparseable lines are       *)
(* skipped.                                                                *)
C22_LineEvents ==
    (mode = "socket" /\ ~stopped) =>
        LET expected == LineEvents(utf8_decode(sent))
        IN  /\ fault # "decode"
            /\ Len(yielded) <= Len(expected)
            /\ yielded = SubSeq(expected, 1, Len(yielded))
            /\ (wire = <<>> /\ collect_pc = "recv") => yielded = expected

(* C23: on a transport failure (the socket peer closes, recv raises an     *)
(* error other than a timeout, the WebSocket reports an error or a close)  *)
(* the collector's connected flag becomes false and no event is yielded;   *)
(* a socket receive timeout keeps the connection, the buffer and the       *)
(* position at the receive.                                                *)
C23_TransportFailure ==
    [][/\ (fault' # fault /\ fault' \in {"closed", "error"}) =>
            (~connected' /\ yielded' = yielded)
       /\ (fault' # fault /\ fault' = "timeout") =>
            /\ connected'
            /\ collect_pc' = "recv"
            /\ recv_buffer' = recv_buffer
            /\ yielded' = yielded]_vars

(* C24: once IngestManager.stop() was called, the event iterator of the    *)
(* active producer yields no further event, in every mode.                 *)
C24_StopObserved == stopped => after_stop = 0

(* C25: in WebSocket mode, once every frame received so far has been      *)
(* handled, the events yielded followed by the events queued are exactly   *)
(* the well-formed frames received, each once and in the order received,   *)
(* whatever the interleaving of the threads; malformed frames leave no     *)
(* trace.                                                                  *)
C25_QueueOrder ==
    ( /\ mode = "websocket"
      /\ \A t \in DOMAIN worker : worker[t].pc = "idle" )
        => yielded \o event_queue
               = FrameEvents(SubSeq(sent, 1, Len(sent) - Len(wire)))

(* C31: ZScoreDetector.predict(v) judges v against the history as it was  *)
(* before the call: (False, 0) when that history has fewer than 2 values   *)
(* or zero standard deviation, otherwise an anomaly iff                    *)
(* |v - mean| > threshold * std; and in every case v becomes the newest    *)
(* history element, the oldest being evicted when the history was full.    *)
C31_PredictJudgesThenAppends ==
    [][z_calls' = z_calls + 1 =>
        LET v == history'[Len(history')]
        IN  /\ (Len(history) < 2 \/ VarN(history) = 0) =>
                   (~z_ret'.is_anomaly /\ z_ret'.z.num = 0)
            /\ (Len(history) >= 2 /\ VarN(history) # 0) =>
                   /\ z_ret'.is_anomaly <=>
                          (Len(history) * v - SumSeq(history))
                              * (Len(history) * v - SumSeq(history))
                          > ZThreshold * ZThreshold * VarN(history)
                   /\ z_ret'.z = ZSquared(history, v)
            /\ history' = IF Len(history) >= window_size
                          THEN Append(Tail(history), v)
                          ELSE Append(history, v)]_vars

(* C32: ZScoreDetector.detect returns is_anomaly = true iff its           *)
(* anomaly_score is greater than 1.0, that is iff some named feature is    *)
(* flagged, a feature being flagged when its |z| exceeds the threshold and *)
(* not when it is below it; the score is the largest |z| over the          *)
(* threshold, to the rounding of its last bit; features that are missing   *)
(* from the map or not numeric appear neither in details nor in the        *)
(* history, and the others appear in both, in the order of the names.      *)
C32_DetectFlagAndScore ==
    [][zd_call'.op = "detect" =>
        LET details == zd_ret'.details
            score == zd_ret'.anomaly_score
            named == SelectSeq(ZDNames,
                         LAMBDA name : /\ name \in DOMAIN zd_call'.features
                                       /\ zd_call'.features[name] # NonNumeric)
            \* the largest z squared, 0 when no feature was judged
            top == IF details = <<>> THEN ZeroScore
                   ELSE details[CHOOSE i \in DOMAIN details :
                                    \A j \in DOMAIN details :
                                        details[j].z.num * details[i].z.den
                                            <= details[i].z.num * details[j].z.den].z
            \* (1000 * |z|)^2 and (threshold * k)^2 over the same denominator
            scaled == BigMul(BigOfInt(top.num), BigOfInt(1000000))
            grid(k) == BigMul(BigOfInt(top.den),
                              BigOfInt(ZThreshold * ZThreshold * k * k))
        IN  /\ zd_ret'.is_anomaly <=>
                   \/ score.thousandths > 1000
                   \/ score.thousandths = 1000 /\ ~score.exact
            /\ zd_ret'.is_anomaly <=>
                   \E i \in DOMAIN details : details[i].is_anomaly
            /\ ~BigLess(scaled, grid(score.thousandths))
            /\ ~BigLess(grid(score.thousandths + 1), scaled)
            /\ scaled = grid(score.thousandths + 1) => ~score.exact
            /\ score.exact => scaled = grid(score.thousandths)
            /\ Len(details) = Len(named)
            /\ \A i \in DOMAIN details :
                   /\ details[i].feature = named[i]
                   /\ details[i].value = zd_call'.features[named[i]]
                   /\ details[i].z.num > ZThreshold * ZThreshold * details[i].z.den
                          => details[i].is_anomaly
                   /\ details[i].z.num < ZThreshold * ZThreshold * details[i].z.den
                          => ~details[i].is_anomaly
                   /\ history'[Len(history') - Len(details) + i]
                          = details[i].value
            /\ z_calls' = z_calls + Len(named)
            /\ \A i \in DOMAIN history' : history'[i] # NonNumeric]_vars

\* a call at the boundary: the largest |z| is exactly the threshold, the
\* doubles of the code put it at or below the threshold and the score just
\* below 1.0, and the call reports no anomaly
C32_Witness ==
    /\ zd_call.op = "detect"
    /\ ~zd_ret.is_anomaly
    /\ zd_ret.anomaly_score = [thousandths |-> 999, exact |-> FALSE]
    /\ \E i \in DOMAIN zd_ret.details :
           zd_ret.details[i].z.num
               = ZThreshold * ZThreshold * zd_ret.details[i].z.den

(* C33: the consumer in WebSocketStreamCollector.collect never holds the  *)
(* queue mutex while it is suspended at a yield or sleeping, so a worker   *)
(* thread that has a frame to enqueue never finds the mutex held by a      *)
(* consumer that waits for the pipeline or sleeps.                         *)
C33_LockFreeWhileSuspended ==
    (mode = "websocket" /\ collect_pc \in {"yield", "sleep"}) =>
        queue_lock # "consumer"

(* C34: after IngestManager.stop() followed by IngestManager.start() on   *)
(* the same manager, the new iterator of the socket and the WebSocket      *)
(* collector delivers events again: once it has connected and entered its  *)
(* loop it only ends on a transport failure or on another stop().          *)
C34_RestartResumes ==
    [][(/\ mode \in {"socket", "websocket"}
        /\ starts >= 2
        /\ ~stopped
        /\ collect_pc \in {"loop", "recv"}
        /\ collect_pc' = "done")
       => fault' \in {"closed", "error", "decode"}]_vars

(* C35: a create_alert call whose fingerprint matches an alert emitted     *)
(* more than deduplication_window seconds earlier emits the alert again.   *)
C35_SuppressionExpires ==
    [][(/\ am_call'.op = "create_alert"
        /\ emitted_at # NoTimestamp
        /\ _is_duplicate(HashOf(am_call'.detection_result, am_call'.event),
                         recent_alert_hashes)
        /\ clock' - emitted_at > deduplication_window)
       => /\ am_ret' # NoAlert
          /\ emitted_at' = clock']_vars

(* C36: clear_alerts(level) removes exactly the alerts of that level and   *)
(* keeps the others in their order, acknowledged flags included;           *)
(* clear_alerts() removes all alerts; neither changes the fingerprint      *)
(* ring, so create_alert for an event alerted before, with fewer than 100  *)
(* other alerts emitted since, returns None and stores nothing, whether    *)
(* its alert was cleared or not.                                           *)
C36_ClearKeepsFingerprints ==
    [][ /\ (am_call'.op = "clear_alerts")
           => LET level == am_call'.level
                  kept == {i \in 1..Len(alerts) : alerts[i].level # level}
              IN  /\ recent_alert_hashes' = recent_alert_hashes
                  /\ level = "" => alerts' = <<>>
                  /\ level # ""
                       => /\ Len(alerts') = Cardinality(kept)
                          /\ \A i \in kept :
                               alerts'[Cardinality({k \in kept : k <= i})]
                                 = alerts[i]
        /\ ( /\ am_call'.op = "create_alert"
             /\ \E k \in 0..(sweep - 1) :
                    /\ am_call'.event = RingEvent(k)
                    /\ sweep - 1 - k < 100 )
           => ( /\ am_ret' = NoAlert
                /\ alerts' = alerts
                /\ recent_alert_hashes' = recent_alert_hashes )
      ]_vars

\* the first alert of the sweep was cleared with all the others and, 99
\* other alerts after it, its event is still suppressed
C36_Witness ==
    /\ am_call.op = "create_alert"
    /\ am_call.event = RingEvent(0)
    /\ am_ret = NoAlert
    /\ alerts = <<>>
    /\ sweep = 100

(* C37: acknowledge_alert(i) sets acknowledged on the (i+1)-th newest      *)
(* stored alert and changes nothing else; for i outside 0..len-1 it        *)
(* changes nothing; no call turns the acknowledged flag of a stored alert  *)
(* back to false; get_stats().unacknowledged is the number of stored       *)
(* alerts whose flag is false.  (Under SpecAck the message identifies a    *)
(* stored alert.)                                                          *)
C37_Acknowledge ==
    [][ /\ (am_call'.op = "acknowledge_alert")
           => LET i == am_call'.alert_index
                  n == Len(alerts)
              IN  /\ recent_alert_hashes' = recent_alert_hashes
                  /\ max_alerts' = max_alerts
                  /\ Len(alerts') = n
                  /\ \A p \in 1..n :
                       alerts'[p] =
                         IF 0 <= i /\ i < n /\ p = n - i
                         THEN [level |-> alerts[p].level,
                               message |-> alerts[p].message,
                               details |-> alerts[p].details,
                               present |-> TRUE,
                               acknowledged |-> TRUE]
                         ELSE alerts[p]
        /\ \A p \in 1..Len(alerts), q \in 1..Len(alerts') :
             (alerts[p].message = alerts'[q].message /\ alerts[p].acknowledged)
               => alerts'[q].acknowledged
        /\ (am_call'.op = "get_stats")
           => /\ am_ret'.total_alerts = Len(alerts')
              /\ am_ret'.unacknowledged =
                   Cardinality({p \in 1..Len(alerts') :
                                   ~alerts'[p].acknowledged})
              /\ alerts' = alerts
      ]_vars

\* the second newest of three stored alerts was acknowledged, the newest
\* and the oldest were not
C37_Witness ==
    /\ am_call.op = "acknowledge_alert"
    /\ am_call.alert_index = 1
    /\ Len(alerts) = 3
    /\ ~alerts[1].acknowledged
    /\ alerts[2].acknowledged
    /\ ~alerts[3].acknowledged

(* C38: when alert_threshold is at least 0.7, every alert stored in the    *)
(* alert ring has is_anomaly true, a score of at least 0.7 and the level   *)
(* warning or critical; no stored alert has the level info.                *)
C38_StoredAlertsActionable ==
    (alert_threshold >= 700)
      => \A i \in 1..Len(alerts) :
           /\ alerts[i].details.is_anomaly
           /\ alerts[i].details.anomaly_score >= 700
           /\ alerts[i].level \in {"warning", "critical"}

\* under the default threshold the ring holds a warning for a detection
\* scored exactly 0.7 and an alert for a client error (score 0.8)
C38_Witness ==
    /\ alert_threshold >= 700
    /\ \E i, j \in 1..Len(alerts) :
         /\ alerts[i].details.anomaly_score = 700
         /\ alerts[i].level = "warning"
         /\ alerts[j].details.anomaly_score = 800

(* C39: after update_window(name, e, size) the named window holds at most  *)
(* size events (window_size when size is omitted): the most recent ones,   *)
(* e last, in arrival order; the main ring and every other named window    *)
(* are unchanged.                                                          *)
C39_NamedWindowCapacity ==
    [][(nw_call'.op = "update_window")
       => LET name == nw_call'.window_name
              capacity == IF nw_call'.size = NoSize THEN wm_window_size
                          ELSE nw_call'.size
              before == IF windows[name].present THEN windows[name].items
                        ELSE <<>>
              arrived == Append(before, nw_call'.event)
              items == windows'[name].items
          IN  /\ Len(items) <= capacity
              /\ Len(items) = (IF Len(arrived) < capacity THEN Len(arrived)
                               ELSE capacity)
              /\ \A i \in 1..Len(items) :
                   items[i] = arrived[Len(arrived) - Len(items) + i]
              /\ \A other \in WindowNames \ {name} :
                   windows'[other] = windows[other]
              /\ wm_data_buffer' = wm_data_buffer]_vars

(* C40: on an array whose first window has a positive mean, detect_spike  *)
(* and detect_drop do not both detect, so detect with method auto records  *)
(* a spike for a feature exactly when detect_spike detects on it and a     *)
(* drop exactly when detect_drop does; and for every method detect reports *)
(* has_changepoint exactly when details has an entry, changepoint_idx      *)
(* being the largest idx of the entries.                                   *)
C40_SpikeDropExclusive ==
    /\ ( /\ Len(cp_values) >= 2 * cp_window_size
         /\ SumSeq(PrevWindow(cp_values, cp_window_size)) > 0 )
       => ~ ( /\ detect_spike(cp_values, cp_window_size).detected
              /\ detect_drop(cp_values, cp_window_size).detected )
    /\ (cp_call.op = "detect")
       => LET details == cp_ret.details
              entries == 1..Len(details)
          IN  /\ cp_ret.has_changepoint <=> entries # {}
              /\ entries # {}
                   => /\ \E i \in entries :
                            details[i].idx = cp_ret.changepoint_idx
                      /\ \A i \in entries :
                            details[i].idx <= cp_ret.changepoint_idx
              /\ entries = {} => cp_ret.changepoint_idx = -1
              /\ (cp_call.method = "auto")
                   => \A k \in 1..Len(cp_call.feature_values) :
                        LET f == cp_call.feature_values[k]
                            HasEntry(type) ==
                                \E i \in entries :
                                    /\ details[i].feature = f.name
                                    /\ details[i].type = type
                        IN  /\ HasEntry("spike")
                                 <=> detect_spike(f.values,
                                                  cp_window_size).detected
                            /\ HasEntry("drop")
                                 <=> detect_drop(f.values,
                                                 cp_window_size).detected

\* detect with method auto found a spike on the first feature and, at a
\* smaller index, a drop on the shorter second one
C40_Witness ==
    /\ cp_call.op = "detect"
    /\ cp_call.method = "auto"
    /\ Len(cp_ret.details) = 2
    /\ cp_ret.details[1].type = "spike"
    /\ cp_ret.details[2].type = "drop"
    /\ cp_ret.details[2].idx < cp_ret.details[1].idx
    /\ cp_ret.changepoint_idx = cp_ret.details[1].idx

(* C17, as stated: for any input array with fewer than 2*window_size       *)
(* values each of detect_spike, detect_drop, detect_pattern_shift and      *)
(* detect_smoothed_delta returns (False, -1), and detect reports           *)
(* has_changepoint = false for every method.                               *)
C17_ShortArrayAllMethods ==
    Len(cp_values) < 2 * cp_window_size =>
        /\ cp_call.op \in {"detect_spike", "detect_drop", "detect_pattern_shift",
                            "detect_smoothed_delta"}
              => cp_ret = NotDetected
        /\ cp_call.op = "detect" => ~cp_ret.has_changepoint

(* C17, amended: for any input array with fewer than 2*window_size values  *)
(* each of detect_spike, detect_drop and detect_pattern_shift returns      *)
(* (False, -1); detect_smoothed_delta returns (False, -1) for any array    *)
(* with fewer than 2*smoothing_window values; and detect, called on        *)
(* arrays with fewer than 2*window_size values, reports has_changepoint =  *)
(* false (no type, index -1, no details) for every method.                 *)
C17_ShortArray ==
    /\ ( /\ Len(cp_values) < 2 * cp_window_size
          /\ cp_call.op \in {"detect_spike", "detect_drop", "detect_pattern_shift"} )
          => cp_ret = NotDetected
    /\ ( /\ cp_call.op = "detect_smoothed_delta"
          /\ Len(cp_values) < 2 * cp_call.smoothing_window )
          => cp_ret = NotDetected
    /\ ( /\ Len(cp_values) < 2 * cp_window_size
          /\ cp_call.op = "detect" )
          => cp_ret = NoChangepoint

\* detect_drop refused an array one value short of two windows whose halves
\* would make a drop
C17_Witness ==
    /\ cp_call.op = "detect_drop"
    /\ cp_window_size = 3
    /\ cp_values = <<4, 4, 4, 0, 0>>
    /\ cp_ret = NotDetected

=============================================================================
